---- MODULE Spec2Model ----
(***************************************************************************)
(* Model of the temporal segmentation and entity-linking layer of the      *)
(* soccer video analysis pipeline (src/components).                        *)
(*                                                                         *)
(* Conventions                                                             *)
(*   - Python None is the string NULL.                                     *)
(*   - time_s is counted in units of 1/PerSecond second, so that every     *)
(*     time of the model is an integer; thresholds given in seconds in     *)
(*     the source are multiplied by PerSecond.                             *)
(*   - Euclidean distances are compared through their squares:             *)
(*     (dx^2+dy^2)**0.5 < d  is  dx^2+dy^2 < d^2  for d >= 0.              *)
(*   - A function that can raise returns [raised |-> e, value |-> v];      *)
(*     raised = NULL means a normal return.                                *)
(***************************************************************************)
EXTENDS Integers, Sequences, FiniteSets, TLC

VARIABLES
    pc,         \* position of the driver: which call has been made
    tracking,   \* the TrackingResult handed to the stage under study
    candidates, \* the ActionCandidates handed to the event builder
    result,     \* what the last call returned: [raised, value]
    result2,    \* what a second, dependent call returned: [raised, value]
    H_cache,    \* PitchMapper._H_cache: cache key -> homography or None
    lookups     \* the get_homography calls made so far on the PitchMapper,
                \* each with what the video and the estimator answered, if asked

vars == <<pc, tracking, candidates, result, result2, H_cache, lookups>>

NULL == "None"

PerSecond == 20

Ok(v) == [raised |-> NULL, value |-> v]

Raise(e) == [raised |-> e, value |-> NULL]

NoResult == [raised |-> NULL, value |-> "not called"]

\* the stage under study uses neither candidates nor a PitchMapper
NoMapperYet == candidates = <<>> /\ H_cache = <<>> /\ lookups = <<>>

(***************************************************************************)
(* Track model (components/tracking.py)                                    *)
(***************************************************************************)
TrackFrame(fi, t, px, py) == [frame_index |-> fi, time_s |-> t, x |-> px, y |-> py]

Track(id, lbl, frs, team, jersey) ==
    [track_id |-> id, label |-> lbl, frames |-> frs,
     team_color |-> team, jersey_number |-> jersey]

\* Optional[Track]: None is the track with no id
NoTrack == Track(NULL, NULL, <<>>, NULL, NULL)

TrackingResult(players, balls) == [player_tracks |-> players, ball_tracks |-> balls]

\* squared Euclidean distance between two frames / points
Dist2(a, b) == (a.x - b.x) * (a.x - b.x) + (a.y - b.y) * (a.y - b.y)

\* indices of a sequence as a set
Indices(s) == 1..Len(s)

\* the elements of a sequence as a set
Range(s) == {s[i] : i \in Indices(s)}

\* s with the elements at the positions in drop removed, order kept
RECURSIVE FilterOut(_, _)
FilterOut(s, drop) ==
    IF s = <<>> THEN <<>>
    ELSE LET rest == FilterOut(Tail(s), {i - 1 : i \in drop \ {1}})
         IN IF 1 \in drop THEN rest ELSE <<Head(s)>> \o rest

\* Python sorted(..., key=...) on frames keyed by time_s: stable insertion
RECURSIVE InsertByTime(_, _)
InsertByTime(sorted, f) ==
    IF sorted = <<>> THEN <<f>>
    ELSE IF sorted[Len(sorted)].time_s <= f.time_s THEN Append(sorted, f)
    ELSE Append(InsertByTime(SubSeq(sorted, 1, Len(sorted) - 1), f), sorted[Len(sorted)])

RECURSIVE SortByTime(_)
SortByTime(frs) ==
    IF frs = <<>> THEN <<>>
    ELSE InsertByTime(SortByTime(SubSeq(frs, 1, Len(frs) - 1)), frs[Len(frs)])

(***************************************************************************)
(* Substitution Linker (components/substitution_linking.py)                *)
(***************************************************************************)
max_time_gap_s == 5 * PerSecond

max_position_dist_px == 100

\* track_map = {t.track_id: t for t in player_tracks}: the last track wins
TrackMap(tracks) ==
    [id \in {tracks[i].track_id : i \in Indices(tracks)} |->
        tracks[CHOOSE i \in Indices(tracks) :
                  /\ tracks[i].track_id = id
                  /\ \A k \in Indices(tracks) : tracks[k].track_id = id => k <= i]]

\* jersey_map[jersey]: the ids of the tracks with that jersey, in list order
RECURSIVE JerseyGroup(_, _)
JerseyGroup(tracks, jersey) ==
    IF tracks = <<>> THEN <<>>
    ELSE IF Head(tracks).jersey_number = jersey
         THEN <<Head(tracks).track_id>> \o JerseyGroup(Tail(tracks), jersey)
         ELSE JerseyGroup(Tail(tracks), jersey)

\* sorted(track_ids, key=lambda tid: track_map[tid].frames[0].time_s), stable;
\* defined only when every track of the group has a frame
RECURSIVE InsertByStart(_, _, _)
InsertByStart(sorted, tid, tmap) ==
    IF sorted = <<>> THEN <<tid>>
    ELSE IF tmap[sorted[Len(sorted)]].frames[1].time_s <= tmap[tid].frames[1].time_s
         THEN Append(sorted, tid)
         ELSE Append(InsertByStart(SubSeq(sorted, 1, Len(sorted) - 1), tid, tmap),
                     sorted[Len(sorted)])

RECURSIVE SortByStart(_, _)
SortByStart(ids, tmap) ==
    IF ids = <<>> THEN <<>>
    ELSE InsertByStart(SortByStart(SubSeq(ids, 1, Len(ids) - 1), tmap), ids[Len(ids)], tmap)

\* a test with both bounds exclusive
ShouldLinkStrictly(old_track, new_track, max_gap, max_dist) ==
    /\ old_track.frames # <<>>
    /\ new_track.frames # <<>>
    /\ LET old_end == old_track.frames[Len(old_track.frames)]
           new_start == new_track.frames[1]
           time_gap == new_start.time_s - old_end.time_s
       IN /\ time_gap > 0 /\ time_gap < max_gap
          /\ Dist2(old_end, new_start) < max_dist * max_dist

\* the test of one consecutive pair (old, new) of a sorted jersey group
ShouldLink(old_track, new_track, max_gap, max_dist) ==
    /\ old_track.frames # <<>>
    /\ new_track.frames # <<>>
    /\ LET old_end == old_track.frames[Len(old_track.frames)]
           new_start == new_track.frames[1]
           time_gap == new_start.time_s - old_end.time_s
       IN /\ ~(time_gap > max_gap \/ time_gap < 0)
          /\ ~(Dist2(old_end, new_start) > max_dist * max_dist)

\* the jersey groups the linker looks at: non-null jersey, more than one track
LinkableJerseys(tracks) ==
    {j \in {tracks[i].jersey_number : i \in Indices(tracks)} :
        j # NULL /\ Len(JerseyGroup(tracks, j)) > 1}

\* the sort key frames[0] of an empty track raises IndexError
SortRaises(tracks) ==
    \E j \in LinkableJerseys(tracks) :
        \E i \in Indices(tracks) :
            tracks[i].jersey_number = j /\ TrackMap(tracks)[tracks[i].track_id].frames = <<>>

\* replacements as a set of pairs <<new_id, old_id>>
ReplacementPairs(tracks, max_gap, max_dist) ==
    LET tmap == TrackMap(tracks)
    IN UNION {
         LET sorted_ids == SortByStart(JerseyGroup(tracks, j), tmap)
         IN {<<sorted_ids[i + 1], sorted_ids[i]>> : i \in
               {k \in 1..(Len(sorted_ids) - 1) :
                   ShouldLink(tmap[sorted_ids[k]], tmap[sorted_ids[k + 1]], max_gap, max_dist)}}
         : j \in LinkableJerseys(tracks)}

\* replacements: new_id -> old_id ; its domain is merged_ids
Replacements(tracks, max_gap, max_dist) ==
    LET pairs == ReplacementPairs(tracks, max_gap, max_dist)
    IN [new_id \in {p[1] : p \in pairs} |-> (CHOOSE p \in pairs : p[1] = new_id)[2]]

\* _merge_tracks: concatenate, sort by time_s, first non-null jersey
MergeTracks(track1, track2) ==
    [track1 EXCEPT
        !.frames = SortByTime(track1.frames \o track2.frames),
        !.jersey_number = IF track1.jersey_number # NULL
                          THEN track1.jersey_number ELSE track2.jersey_number]

\* the tracks kept: those whose id is not in merged_ids, in order
UpdatedTracks(tracks, merged_ids) ==
    FilterOut(tracks, {i \in Indices(tracks) : tracks[i].track_id \in merged_ids})

\* the merge loop over updated_tracks, from position i on
RECURSIVE MergeLoop(_, _, _)
MergeLoop(updated, i, replacements) ==
    IF i > Len(updated) THEN updated
    ELSE LET track == updated[i]
             hits == IF track.track_id \in DOMAIN replacements
                     THEN {j \in Indices(updated) :
                              updated[j].track_id = replacements[track.track_id]}
                     ELSE {}
         IN IF hits = {} THEN MergeLoop(updated, i + 1, replacements)
            ELSE LET j == CHOOSE k \in hits : \A m \in hits : k <= m
                 IN MergeLoop([updated EXCEPT ![j] = MergeTracks(updated[j], track)],
                              i + 1, replacements)

link_substitutions(tr, max_gap, max_dist) ==
    IF Len(tr.player_tracks) < 2 THEN Ok(tr)
    ELSE IF SortRaises(tr.player_tracks) THEN Raise("IndexError")
    ELSE LET replacements == Replacements(tr.player_tracks, max_gap, max_dist)
             updated == UpdatedTracks(tr.player_tracks, DOMAIN replacements)
         IN Ok(TrackingResult(MergeLoop(updated, 1, replacements), tr.ball_tracks))

(***************************************************************************)
(* Inputs of the linker: up to MaxTracks player tracks, each with at most  *)
(* two frames, drawn from the instants and places below.  The places are   *)
(* chosen so that two of them are exactly max_position_dist_px apart and   *)
(* two are farther apart; the instants so that gaps equal to, below and    *)
(* above max_time_gap_s occur.                                             *)
(***************************************************************************)
MaxTracks == 3

LinkTimes == {0, 5 * PerSecond, 11 * PerSecond}

LinkPlaces == {<<0, 0>>, <<60, 80>>, <<0 - 60, 0 - 80>>}

LinkFrames ==
    {TrackFrame(t \div PerSecond, t, p[1], p[2]) : t \in LinkTimes, p \in LinkPlaces}

\* A two-frame track starts anywhere and ends, later, at the origin.
LinkFrameSeqs ==
    {<<>>} \cup {<<f>> : f \in LinkFrames}
      \cup UNION {{<<f, g>> : g \in {h \in LinkFrames : /\ h.time_s > f.time_s
                                                        /\ h.x = 0 /\ h.y = 0}}
                  : f \in LinkFrames}

Jerseys == {NULL, "10"}

PlayerIds == <<"p1", "p2", "p3", "p4", "p5">>

LinkPlayerLists ==
    UNION {[1..n -> LinkFrameSeqs \X Jerseys] : n \in 0..MaxTracks}

MakePlayers(choice) ==
    [i \in 1..Len(choice) |->
        Track(PlayerIds[i], "player", choice[i][1], NULL, choice[i][2])]

InitLink ==
    /\ pc = "start"
    /\ \E choice \in LinkPlayerLists : tracking = TrackingResult(MakePlayers(choice), <<>>)
    /\ result = NoResult
    /\ result2 = NoResult
    /\ NoMapperYet

\* pipeline step "Linking substitutions": link_substitutions(_tracking)
LinkSubstitutions ==
    /\ pc = "start"
    /\ result' = link_substitutions(tracking, max_time_gap_s, max_position_dist_px)
    /\ pc' = "linked"
    /\ UNCHANGED <<tracking, candidates, result2, H_cache, lookups>>

\* the linker run again on its own output
LinkAgain ==
    /\ pc = "linked"
    /\ result.raised = NULL
    /\ result2' = link_substitutions(result.value, max_time_gap_s, max_position_dist_px)
    /\ pc' = "relinked"
    /\ UNCHANGED <<tracking, candidates, result, H_cache, lookups>>

NextLink == LinkSubstitutions \/ LinkAgain

SpecLink == InitLink /\ [][NextLink]_vars

(***************************************************************************)
(* Claims about the Substitution Linker                                    *)
(***************************************************************************)
\* the earliest track of the chain that id was linked into
RECURSIVE ChainRoot(_, _)
ChainRoot(id, replacements) ==
    IF id \in DOMAIN replacements THEN ChainRoot(replacements[id], replacements) ELSE id

IsSortedByTime(frs) ==
    \A i \in 1..(Len(frs) - 1) : frs[i].time_s <= frs[i + 1].time_s

\* C2: when the linker links player tracks (a pair or a chain), its output has
\* exactly one track for the whole chain, with the earliest track's id and
\* jersey number, whose frames are the union of the frames of every track of
\* the chain, sorted by time_s: no frame of a linked track is lost.
C2_ChainMergedIntoOneTrack ==
    (pc # "start" /\ result.raised = NULL) =>
        LET tracks == tracking.player_tracks
            tmap == TrackMap(tracks)
            out == result.value.player_tracks
            repl == IF Len(tracks) < 2 THEN <<>>
                    ELSE Replacements(tracks, max_time_gap_s, max_position_dist_px)
        IN \A new_id \in DOMAIN repl :
             LET root == ChainRoot(new_id, repl)
                 chain == {id \in DOMAIN tmap : ChainRoot(id, repl) = root}
             IN /\ Cardinality({i \in Indices(out) : out[i].track_id \in chain}) = 1
                /\ \E i \in Indices(out) :
                     /\ out[i].track_id = root
                     /\ out[i].jersey_number = tmap[root].jersey_number
                     /\ Range(out[i].frames) = UNION {Range(tmap[id].frames) : id \in chain}
                     /\ IsSortedByTime(out[i].frames)

\* C3: the linker is idempotent: run on its own output it returns the same
\* player tracks, in the same order and with the same frames.
C3_LinkIdempotent ==
    (pc = "relinked" /\ result2.raised = NULL) =>
        result2.value.player_tracks = result.value.player_tracks

\* track a comes before track b when their jersey group is sorted by
\* first-frame time_s, tracks starting together keeping their list order
StartsBefore(tracks, a, b) ==
    \/ tracks[a].frames[1].time_s < tracks[b].frames[1].time_s
    \/ tracks[a].frames[1].time_s = tracks[b].frames[1].time_s /\ a < b

\* the positions of the immediate predecessor of track b in its jersey group
\* (none for the first track of a group)
PredecessorOf(tracks, b) ==
    {a \in Indices(tracks) :
        /\ tracks[a].jersey_number = tracks[b].jersey_number
        /\ StartsBefore(tracks, a, b)
        /\ \A c \in Indices(tracks) :
              (tracks[c].jersey_number = tracks[b].jersey_number
                 /\ StartsBefore(tracks, a, c)) => ~StartsBefore(tracks, c, b)}

\* the gap and distance from the last frame of old to the first frame of
\* new are within the bounds, both bounds included
WithinBounds(old, new) ==
    LET gap == new.frames[1].time_s - old.frames[Len(old.frames)].time_s
    IN /\ 0 <= gap
       /\ gap <= max_time_gap_s
       /\ Dist2(old.frames[Len(old.frames)], new.frames[1])
             <= max_position_dist_px * max_position_dist_px

\* C18: link_substitutions removes a player track from its output if and
\* only if the track has a jersey number and, with its jersey group sorted by
\* first-frame time_s, its immediate predecessor old satisfies
\* 0 <= track.first.time_s - old.last.time_s <= max_time_gap_s and
\* distance(old.last, track.first) <= max_position_dist_px; tracks without a
\* jersey number are never linked and only adjacent tracks are compared.
C18_RemovedIffLinkedToPredecessor ==
    (pc = "linked" /\ result.raised = NULL) =>
        LET tracks == tracking.player_tracks
            out == result.value.player_tracks
        IN \A b \in Indices(tracks) :
              (\A i \in Indices(out) : out[i].track_id # tracks[b].track_id)
                 <=> /\ tracks[b].jersey_number # NULL
                     /\ tracks[b].frames # <<>>
                     /\ \E a \in PredecessorOf(tracks, b) : WithinBounds(tracks[a], tracks[b])

\* a track is removed whose predecessor ended exactly max_position_dist_px
\* away, and a track that fits an earlier track of
\* its group that is not its predecessor is kept
C18_Witness ==
    /\ pc = "linked"
    /\ result.raised = NULL
    /\ \A i \in Indices(tracking.player_tracks) : tracking.player_tracks[i].frames # <<>>
    /\ LET tracks == tracking.player_tracks
           out == result.value.player_tracks
       IN /\ \E b \in Indices(tracks) : \E a \in PredecessorOf(tracks, b) :
               /\ \A i \in Indices(out) : out[i].track_id # tracks[b].track_id
               /\ Dist2(tracks[a].frames[Len(tracks[a].frames)], tracks[b].frames[1])
                     = max_position_dist_px * max_position_dist_px
          /\ \E b \in Indices(tracks) : \E a \in Indices(tracks) :
               /\ \E i \in Indices(out) : out[i].track_id = tracks[b].track_id
               /\ tracks[a].jersey_number = tracks[b].jersey_number
               /\ tracks[b].jersey_number # NULL
               /\ StartsBefore(tracks, a, b)
               /\ a \notin PredecessorOf(tracks, b)
               /\ WithinBounds(tracks[a], tracks[b])

(***************************************************************************)
(* Possession Segmenter (components/possession.py)                         *)
(***************************************************************************)
max_ball_distance == 60

\* 0.1 s
min_segment_duration == PerSecond \div 10

\* max(tracks, key=lambda t: len(t.frames)): the first track of maximal length
PrimaryTrack(tracks) ==
    tracks[CHOOSE i \in Indices(tracks) :
              /\ \A k \in Indices(tracks) : Len(tracks[k].frames) <= Len(tracks[i].frames)
              /\ \A k \in 1..(i - 1) : Len(tracks[k].frames) < Len(tracks[i].frames)]

\* the first frame of frs whose frame_index is fi, as a one-element set; {} if none
FrameAt(frs, fi) ==
    LET hits == {k \in Indices(frs) : frs[k].frame_index = fi}
    IN IF hits = {} THEN {} ELSE {frs[CHOOSE k \in hits : \A m \in hits : k <= m]}

\* a scan in which a track at the same distance replaces the one found so far
RECURSIVE NearestScanLastSeen(_, _, _, _, _)
NearestScanLastSeen(ball_frame, player_tracks, i, min_d2, best) ==
    IF i > Len(player_tracks) THEN best
    ELSE LET at == FrameAt(player_tracks[i].frames, ball_frame.frame_index)
             closer == {f \in at : Dist2(f, ball_frame) <= min_d2}
         IN IF closer = {}
            THEN NearestScanLastSeen(ball_frame, player_tracks, i + 1, min_d2, best)
            ELSE NearestScanLastSeen(ball_frame, player_tracks, i + 1,
                                     Dist2(CHOOSE f \in closer : TRUE, ball_frame), i)

\* the scan of _find_nearest_player_at_frame from track i on; best is the index
\* of the nearest track so far (0: none) and min_d2 the square of min_dist
RECURSIVE NearestScan(_, _, _, _, _)
NearestScan(ball_frame, player_tracks, i, min_d2, best) ==
    IF i > Len(player_tracks) THEN best
    ELSE LET at == FrameAt(player_tracks[i].frames, ball_frame.frame_index)
             closer == {f \in at : Dist2(f, ball_frame) < min_d2}
         IN IF closer = {} THEN NearestScan(ball_frame, player_tracks, i + 1, min_d2, best)
            ELSE NearestScan(ball_frame, player_tracks, i + 1,
                             Dist2(CHOOSE f \in closer : TRUE, ball_frame), i)

\* _find_nearest_player_at_frame: the nearest track, or None
find_nearest_player_at_frame(ball_frame, player_tracks, max_dist) ==
    LET best == NearestScan(ball_frame, player_tracks, 1, max_dist * max_dist, 0)
    IN IF best = 0 THEN NoTrack ELSE player_tracks[best]

\* a segment that ends one frame after the frame at which it was closed
PossessionSegmentPastClose(pid, owner_id, tmap, t0, t1, f0, f1) ==
    [possession_id |-> pid,
     team_color |-> IF owner_id \in DOMAIN tmap THEN tmap[owner_id].team_color ELSE NULL,
     player_track_id |-> owner_id,
     start_time_s |-> t0, end_time_s |-> t1,
     start_frame |-> f0, end_frame |-> f1 + 1]

PossessionSegment(pid, owner_id, tmap, t0, t1, f0, f1) ==
    [possession_id |-> pid,
     team_color |-> IF owner_id \in DOMAIN tmap THEN tmap[owner_id].team_color ELSE NULL,
     player_track_id |-> owner_id,
     start_time_s |-> t0, end_time_s |-> t1,
     start_frame |-> f0, end_frame |-> f1]

\* a close that emits only segments lasting longer than the minimum
CloseSegmentIfLonger(st, ball_frame, players, min_dur, uuids) ==
    IF /\ st.current_owner_id # NULL
       /\ ball_frame.time_s - st.segment_start_time > min_dur
    THEN Append(st.possessions,
                PossessionSegment(uuids[Len(st.possessions) + 1], st.current_owner_id,
                                  TrackMap(players), st.segment_start_time,
                                  ball_frame.time_s, st.segment_start_frame,
                                  ball_frame.frame_index))
    ELSE st.possessions

\* the segment closed when the owner changes at ball_frame, appended to the
\* list if it lasted long enough
CloseSegment(st, ball_frame, players, min_dur, uuids) ==
    IF /\ st.current_owner_id # NULL
       /\ ball_frame.time_s - st.segment_start_time >= min_dur
    THEN Append(st.possessions,
                PossessionSegment(uuids[Len(st.possessions) + 1], st.current_owner_id,
                                  TrackMap(players), st.segment_start_time,
                                  ball_frame.time_s, st.segment_start_frame,
                                  ball_frame.frame_index))
    ELSE st.possessions

\* the loop over the frames of the ball track, from position i on
RECURSIVE PossessionLoop(_, _, _, _, _, _, _)
PossessionLoop(frames, i, st, players, max_dist, min_dur, uuids) ==
    IF i > Len(frames) THEN st
    ELSE LET ball_frame == frames[i]
             nearest_player == find_nearest_player_at_frame(ball_frame, players, max_dist)
             owner_id == IF nearest_player = NoTrack THEN NULL ELSE nearest_player.track_id
         IN IF owner_id # st.current_owner_id
            THEN PossessionLoop(frames, i + 1,
                   [current_owner_id |-> owner_id,
                    segment_start_frame |-> ball_frame.frame_index,
                    segment_start_time |-> ball_frame.time_s,
                    possessions |-> CloseSegment(st, ball_frame, players, min_dur, uuids)],
                   players, max_dist, min_dur, uuids)
            ELSE PossessionLoop(frames, i + 1, st, players, max_dist, min_dur, uuids)

\* infer_possessions; uuids are the draws of str(uuid.uuid4())[:8], in order
infer_possessions(track_data, max_dist, min_dur, uuids) ==
    IF track_data.ball_tracks = <<>> \/ track_data.player_tracks = <<>> THEN <<>>
    ELSE LET ball_track == PrimaryTrack(track_data.ball_tracks)
         IN IF ball_track.frames = <<>> THEN <<>>
            ELSE LET st == PossessionLoop(ball_track.frames, 1,
                               [current_owner_id |-> NULL, segment_start_frame |-> NULL,
                                segment_start_time |-> NULL, possessions |-> <<>>],
                               track_data.player_tracks, max_dist, min_dur, uuids)
                 IN CloseSegment(st, ball_track.frames[Len(ball_track.frames)],
                                 track_data.player_tracks, min_dur, uuids)

(***************************************************************************)
(* Inputs of the possession segmenter: a ball resting at the origin for up *)
(* to MaxBallFrames frames, sampled every 1 or 2 ticks, a one-frame ball   *)
(* fragment listed before it, and two players who at each frame are absent *)
(* or stand at a distance of 25, 50 or exactly max_ball_distance.          *)
(***************************************************************************)
MaxBallFrames == 4

TicksPerFrame == {1, 2}

Absent == <<>>

PlacesOfP1 == {Absent, <<30, 40>>, <<36, 48>>}

PlacesOfP2 == {Absent, <<15, 20>>, <<40, 30>>, <<48, 36>>}

UuidPrefixes == {"0a1b2c3d", "4e5f6a7b"}

\* the frames of a track seen at the frames k..n where where[k] is a place
RECURSIVE FramesFrom(_, _, _)
FramesFrom(where, k, ticks) ==
    IF k > Len(where) THEN <<>>
    ELSE IF where[k] = Absent THEN FramesFrom(where, k + 1, ticks)
    ELSE <<TrackFrame(k - 1, (k - 1) * ticks, where[k][1], where[k][2])>>
           \o FramesFrom(where, k + 1, ticks)

BallFragment == Track("b0", "ball", <<TrackFrame(99, 99 * 2, 500, 500)>>, NULL, NULL)

PossTracking(n, ticks, w1, w2) ==
    TrackingResult(
        <<Track("p1", "player", FramesFrom(w1, 1, ticks), "red", NULL),
          Track("p2", "player", FramesFrom(w2, 1, ticks), "blue", NULL)>>,
        <<BallFragment,
          Track("b1", "ball", FramesFrom([k \in 1..n |-> <<0, 0>>], 1, ticks), NULL, NULL)>>)

InitPoss ==
    /\ pc = "start"
    /\ \E n \in 0..MaxBallFrames, ticks \in TicksPerFrame :
         \E w1 \in [1..n -> PlacesOfP1], w2 \in [1..n -> PlacesOfP2] :
            tracking = PossTracking(n, ticks, w1, w2)
    /\ result = NoResult
    /\ result2 = NoResult
    /\ NoMapperYet

\* how many ids the call draws: one per segment it emits
DrawsOfPossession(tr) ==
    Len(infer_possessions(tr, max_ball_distance, min_segment_duration,
                          [k \in 1..(MaxBallFrames + 1) |-> "--------"]))

\* pipeline step "Inferring possession": infer_possessions(video_path, _tracking)
InferPossessions ==
    /\ pc = "start"
    /\ \E uuids \in [1..DrawsOfPossession(tracking) -> UuidPrefixes] :
         result' = Ok(infer_possessions(tracking, max_ball_distance,
                                        min_segment_duration, uuids))
    /\ pc' = "possessions"
    /\ UNCHANGED <<tracking, candidates, result2, H_cache, lookups>>

NextPoss == InferPossessions

SpecPoss == InitPoss /\ [][NextPoss]_vars

\* C1: the segments returned by infer_possessions are pairwise disjoint in
\* frame range -- a later segment starts strictly after an earlier one ends --
\* and every start_frame and end_frame is the frame_index of a frame of the
\* primary ball track.
C1_SegmentsStrictlyDisjoint ==
    pc = "possessions" =>
        LET segs == result.value
            ball_indices == IF tracking.ball_tracks = <<>> THEN {}
                            ELSE {f.frame_index :
                                    f \in Range(PrimaryTrack(tracking.ball_tracks).frames)}
        IN /\ \A i \in Indices(segs) : \A j \in Indices(segs) :
                i < j => segs[j].start_frame > segs[i].end_frame
           /\ \A i \in Indices(segs) :
                segs[i].start_frame \in ball_indices /\ segs[i].end_frame \in ball_indices

\* the positions of the player tracks seen at the ball frame strictly within
\* max_dist of the ball and no farther from it than any other such track
NearestTied(ball_frame, players, max_dist) ==
    LET d2(k) == Dist2(CHOOSE f \in FrameAt(players[k].frames, ball_frame.frame_index) : TRUE,
                       ball_frame)
        seen == {k \in Indices(players) :
                    /\ FrameAt(players[k].frames, ball_frame.frame_index) # {}
                    /\ d2(k) < max_dist * max_dist}
    IN {k \in seen : \A m \in seen : d2(k) <= d2(m)}

\* C13: when two or more player tracks are at the same minimal distance
\* (below max_ball_distance) from the ball at a frame, the owner chosen for
\* the frame is the one that comes first in player_tracks: at every ball
\* frame the nearest player found is the first of the tied tracks, and every
\* emitted segment belongs to the first of the tracks tied at its start frame.
C13_TieGoesToFirstTrack ==
    (pc = "possessions" /\ tracking.ball_tracks # <<>>) =>
        LET players == tracking.player_tracks
            frames == PrimaryTrack(tracking.ball_tracks).frames
            tied(f) == NearestTied(f, players, max_ball_distance)
            first(f) == CHOOSE k \in tied(f) : \A m \in tied(f) : k <= m
        IN /\ \A f \in Range(frames) :
                find_nearest_player_at_frame(f, players, max_ball_distance)
                   = IF tied(f) = {} THEN NoTrack ELSE players[first(f)]
           /\ \A i \in Indices(result.value) : \A f \in Range(frames) :
                f.frame_index = result.value[i].start_frame =>
                    /\ tied(f) # {}
                    /\ result.value[i].player_track_id = players[first(f)].track_id

\* a segment was emitted that starts at a frame where both players are at
\* the same minimal distance from the ball
C13_Witness ==
    /\ pc = "possessions"
    /\ \E i \in Indices(result.value) :
         \E f \in Range(PrimaryTrack(tracking.ball_tracks).frames) :
            /\ f.frame_index = result.value[i].start_frame
            /\ Cardinality(NearestTied(f, tracking.player_tracks, max_ball_distance)) = 2
            /\ result.value[i].player_track_id = "p1"

(***************************************************************************)
(* Phase Segmenter (components/phase_segmentation.py)                      *)
(***************************************************************************)
dwell_window == 5

speed_threshold_px_s == 80

max_drift_px == 10

min_halftime_duration_s == 300 * PerSecond

activity_window == 30

activity_threshold == 50

\* Optional[float]: None is NULL; a time is wrapped in a one-element sequence
\* by the detectors below, <<>> standing for None
NoTime == <<>>

\* Optional[int] frame of a segment: None.  Frame indices are never negative.
NoFrame == 0 - 1

\* a segment whose frame bounds default to frame 0 instead of None
PhaseSegmentAtFrameZero(period, phase, t0, t1) ==
    [period |-> period, phase |-> phase, start_time_s |-> t0, end_time_s |-> t1,
     start_frame |-> 0, end_frame |-> 0]

PhaseSegment(period, phase, t0, t1) ==
    [period |-> period, phase |-> phase, start_time_s |-> t0, end_time_s |-> t1,
     start_frame |-> NoFrame, end_frame |-> NoFrame]

Max(S) == CHOOSE m \in S : \A v \in S : v <= m

Min(S) == CHOOSE m \in S : \A v \in S : m <= v

\* frames[a:b] of Python (0-based, b exclusive, cut at the end of the list)
Slice(frs, a, b) == SubSeq(frs, a + 1, IF b < Len(frs) THEN b ELSE Len(frs))

ExtentX(window) == Max({f.x : f \in Range(window)}) - Min({f.x : f \in Range(window)})

ExtentY(window) == Max({f.y : f \in Range(window)}) - Min({f.y : f \in Range(window)})

\* speed >= v, where speed = sqrt(d2) / dt and dt = max(dt_ticks, 1e-3 s);
\* d2 is a sum of squares of integers and v * dt_ticks a multiple of PerSecond
SpeedAtLeast(d2, dt_ticks, v) ==
    IF dt_ticks >= 1
    THEN LET r == (v * dt_ticks) \div PerSecond IN d2 >= r * r
    ELSE d2 >= (v * v + 999999) \div 1000000

\* the test of the kickoff detectors at position idx (0-based)
DwellThenSpike(frames, idx) ==
    LET window == Slice(frames, idx - dwell_window, idx)
        curr == frames[idx + 1]
        next_frame == frames[idx + 2]
    IN /\ ~(ExtentX(window) > max_drift_px \/ ExtentY(window) > max_drift_px)
       /\ SpeedAtLeast(Dist2(next_frame, curr), next_frame.time_s - curr.time_s,
                       speed_threshold_px_s)

\* a search that reports the time at which the dwell before the spike began
FirstSpikeDwellStart(frames, first) ==
    LET hits == {idx \in first..(Len(frames) - 2) : DwellThenSpike(frames, idx)}
    IN IF hits = {} THEN NoTime ELSE <<frames[Min(hits) - dwell_window + 1].time_s>>

\* for idx in range(first, len(frames) - 1): the first idx that passes
FirstSpike(frames, first) ==
    LET hits == {idx \in first..(Len(frames) - 2) : DwellThenSpike(frames, idx)}
    IN IF hits = {} THEN NoTime ELSE <<frames[Min(hits) + 1].time_s>>

detect_kickoff_time(tr) ==
    IF tr.ball_tracks = <<>> THEN NoTime
    ELSE LET frames == PrimaryTrack(tr.ball_tracks).frames
         IN IF Len(frames) < 3 THEN NoTime ELSE FirstSpike(frames, dwell_window)

SpatialRange(window) ==
    IF ExtentX(window) >= ExtentY(window) THEN ExtentX(window) ELSE ExtentY(window)

\* an inner loop that accepts the first later activity however soon it comes
HalftimeFromAnyGap(frames, idx) ==
    LET resumed == {end_idx \in (idx + activity_window)..(Len(frames) - 1) :
                      SpatialRange(Slice(frames, end_idx, end_idx + activity_window))
                         > activity_threshold}
    IN IF resumed = {} THEN NoTime
       ELSE <<frames[idx + 1].time_s, frames[Min(resumed) + 1].time_s>>

\* the inner loop of _detect_halftime for the quiet window at idx: the first
\* later window with activity, accepted only if it is late enough
HalftimeFrom(frames, idx) ==
    LET resumed == {end_idx \in (idx + activity_window)..(Len(frames) - 1) :
                      SpatialRange(Slice(frames, end_idx, end_idx + activity_window))
                         > activity_threshold}
    IN IF resumed = {} THEN NoTime
       ELSE LET halftime_start_s == frames[idx + 1].time_s
                halftime_end_s == frames[Min(resumed) + 1].time_s
            IN IF halftime_end_s - halftime_start_s >= min_halftime_duration_s
               THEN <<halftime_start_s, halftime_end_s>>
               ELSE NoTime

\* _detect_halftime; kickoff_time_s is accepted and not used, as in the source
detect_halftime(tr, kickoff_time_s) ==
    IF tr.ball_tracks = <<>> THEN NoTime
    ELSE LET frames == PrimaryTrack(tr.ball_tracks).frames
             found == {idx \in 0..(Len(frames) - activity_window - 1) :
                         /\ SpatialRange(Slice(frames, idx, idx + activity_window))
                               < activity_threshold
                         /\ HalftimeFrom(frames, idx) # NoTime}
         IN IF Len(frames) < 20 \/ found = {} THEN NoTime
            ELSE HalftimeFrom(frames, Min(found))

detect_second_half_kickoff(tr, halftime_end_s) ==
    IF tr.ball_tracks = <<>> THEN NoTime
    ELSE LET frames == PrimaryTrack(tr.ball_tracks).frames
             later == {i \in 0..(Len(frames) - 1) : frames[i + 1].time_s >= halftime_end_s}
             start_idx == IF later = {} THEN 0 ELSE Min(later)
         IN IF Len(frames) < 3 \/ start_idx + 3 >= Len(frames) THEN NoTime
            ELSE FirstSpike(frames, start_idx + dwell_window)

\* a segmenter that reports a halftime it finds even without a kickoff
segment_game_phases_partial(tr) ==
    LET kickoff == detect_kickoff_time(tr)
        halftime_info == detect_halftime(tr, 0)
    IN IF kickoff # NoTime
       THEN <<PhaseSegment(1, "first_half", kickoff[1], kickoff[1])>>
       ELSE IF halftime_info = NoTime THEN <<>>
       ELSE <<PhaseSegment(1, "halftime", halftime_info[1], halftime_info[2])>>

segment_game_phases(tr) ==
    LET kickoff == detect_kickoff_time(tr)
    IN IF kickoff = NoTime THEN <<>>
       ELSE LET kickoff_time_s == kickoff[1]
                halftime_info == detect_halftime(tr, kickoff_time_s)
            IN IF halftime_info = NoTime
               THEN <<PhaseSegment(1, "first_half", kickoff_time_s, kickoff_time_s)>>
               ELSE LET halftime_start_s == halftime_info[1]
                        halftime_end_s == halftime_info[2]
                        second_kickoff == detect_second_half_kickoff(tr, halftime_end_s)
                        frames == PrimaryTrack(tr.ball_tracks).frames
                    IN <<PhaseSegment(1, "first_half", kickoff_time_s, halftime_start_s),
                         PhaseSegment(1, "halftime", halftime_start_s, halftime_end_s),
                         IF second_kickoff # NoTime
                         THEN PhaseSegment(2, "second_half", second_kickoff[1],
                                           second_kickoff[1])
                         ELSE PhaseSegment(2, "second_half", halftime_end_s,
                                           frames[Len(frames)].time_s)>>

(***************************************************************************)
(* Inputs of the phase segmenter: one ball track, sampled every half       *)
(* second (sample_fps = 2), that rests except for at most two moves -- 45  *)
(* px along x, a speed spike that stays under activity_threshold, or 60 px *)
(* along y, a spike that exceeds it -- and in which the ball goes unseen   *)
(* for 300 s at most once, before one of every sixth frame.                *)
(***************************************************************************)
MaxPhaseFrames == 43

PhaseLengths == {2, 6, 12, MaxPhaseFrames}

PhaseStep == PerSecond \div 2

LongGap == 300 * PerSecond

Moves == {<<45, 0>>, <<0, 60>>}

\* at most two moves: a set of <<frame position, move>> at distinct positions
MoveSets(n) ==
    {{}} \cup {{<<a, m>>} : a \in 2..n, m \in Moves}
         \cup UNION {{{<<a, m1>>, <<b, m2>>} : m1 \in Moves, m2 \in Moves}
                     : a \in 2..n, b \in 2..n}

\* where the long gap may fall: before frame gap_at (1: nowhere)
GapPositions(n) == {1} \cup {k \in 2..n : k % 6 = 2}

\* the frames k..n of the ball, given the frame before
RECURSIVE BallFrom(_, _, _, _, _)
BallFrom(k, n, prev, moves, gap_at) ==
    IF k > n THEN <<>>
    ELSE LET here == {mv \in moves : mv[1] = k}
             dx == IF here = {} THEN 0 ELSE (CHOOSE mv \in here : TRUE)[2][1]
             dy == IF here = {} THEN 0 ELSE (CHOOSE mv \in here : TRUE)[2][2]
             f == TrackFrame(k - 1,
                             prev.time_s + (IF k = gap_at THEN LongGap ELSE PhaseStep),
                             prev.x + dx, prev.y + dy)
         IN <<f>> \o BallFrom(k + 1, n, f, moves, gap_at)

PhaseBall(n, moves, gap_at) ==
    LET first == TrackFrame(0, 0, 0, 0)
    IN Track("b1", "ball", <<first>> \o BallFrom(2, n, first, moves, gap_at), NULL, NULL)

InitPhase ==
    /\ pc = "start"
    /\ \E n \in PhaseLengths :
         \E moves \in {ms \in MoveSets(n) : \A p \in ms : \A q \in ms : p[1] = q[1] => p = q},
            gap_at \in GapPositions(n) :
            tracking = TrackingResult(<<>>, <<PhaseBall(n, moves, gap_at)>>)
    /\ result = NoResult
    /\ result2 = NoResult
    /\ NoMapperYet

\* pipeline step "Segmenting phases": segment_game_phases on the tracking
SegmentGamePhases ==
    /\ pc = "start"
    /\ result' = Ok(segment_game_phases(tracking))
    /\ pc' = "phases"
    /\ UNCHANGED <<tracking, candidates, result2, H_cache, lookups>>

NextPhase == SegmentGamePhases

SpecPhase == InitPhase /\ [][NextPhase]_vars

\* C4: whenever both a kickoff and a halftime are detected,
\* kickoff_time < halftime_start < halftime_end, and if a second-half kickoff
\* is detected then halftime_end <= second_kickoff_time; the emitted
\* segments are chronologically ordered, each with start_time_s <= end_time_s.
C4_PhaseMonotonicity ==
    (pc = "phases" /\ Len(result.value) = 3) =>
        LET segs == result.value
        IN /\ segs[1].start_time_s < segs[2].start_time_s
           /\ segs[2].start_time_s < segs[2].end_time_s
           /\ segs[2].end_time_s <= segs[3].start_time_s
           /\ \A i \in 1..3 : segs[i].start_time_s <= segs[i].end_time_s
           /\ \A i \in 1..2 : segs[i].end_time_s <= segs[i + 1].start_time_s

\* C11: segment_game_phases emits nothing when no kickoff is detected, even
\* if a halftime is detectable; one first_half segment [kickoff, kickoff]
\* when only a kickoff is found; and when a halftime is found too, three
\* segments in this order: first_half [kickoff, halftime_start], halftime
\* [halftime_start, halftime_end] and second_half, which is the marker
\* [second_kickoff, second_kickoff] if a second kickoff is detected and
\* otherwise [halftime_end, time of the last frame of the primary ball track].
C11_PhaseOutputShape ==
    pc = "phases" =>
        LET segs == result.value
            kickoff == detect_kickoff_time(tracking)
            half == detect_halftime(tracking, 0)
            frames == PrimaryTrack(tracking.ball_tracks).frames
        IN IF kickoff = NoTime THEN segs = <<>>
           ELSE IF half = NoTime
           THEN /\ Len(segs) = 1
                /\ segs[1].phase = "first_half"
                /\ segs[1].start_time_s = kickoff[1]
                /\ segs[1].end_time_s = kickoff[1]
           ELSE /\ Len(segs) = 3
                /\ <<segs[1].phase, segs[2].phase, segs[3].phase>>
                      = <<"first_half", "halftime", "second_half">>
                /\ <<segs[1].start_time_s, segs[1].end_time_s>> = <<kickoff[1], half[1]>>
                /\ <<segs[2].start_time_s, segs[2].end_time_s>> = half
                /\ LET second == detect_second_half_kickoff(tracking, half[2])
                   IN IF second # NoTime
                      THEN <<segs[3].start_time_s, segs[3].end_time_s>>
                              = <<second[1], second[1]>>
                      ELSE <<segs[3].start_time_s, segs[3].end_time_s>>
                              = <<half[2], frames[Len(frames)].time_s>>

\* a kickoff, a halftime and a second kickoff are found: three segments, the
\* last one the marker of the second kickoff
C11_Witness ==
    /\ pc = "phases"
    /\ Len(result.value) = 3
    /\ result.value[3].start_time_s = result.value[3].end_time_s
    /\ detect_second_half_kickoff(tracking, result.value[2].end_time_s) # NoTime

\* the ball moves at least speed_threshold_px_s fast from the frame at
\* position idx (0-based) to the next one
SpikeAt(frames, idx) ==
    SpeedAtLeast(Dist2(frames[idx + 2], frames[idx + 1]),
                 frames[idx + 2].time_s - frames[idx + 1].time_s, speed_threshold_px_s)

\* the positions idx >= 5 (0-based) with a next frame, whose 5 preceding
\* frames lie within max_drift_px of each other in x and in y, and at which
\* the ball spikes
KickoffPositions(frames) ==
    {idx \in 5..(Len(frames) - 2) :
        /\ \A a \in (idx - 5)..(idx - 1) : \A b \in (idx - 5)..(idx - 1) :
              /\ frames[a + 1].x - frames[b + 1].x <= max_drift_px
              /\ frames[a + 1].y - frames[b + 1].y <= max_drift_px
        /\ SpikeAt(frames, idx)}

\* C14: the kickoff detector returns the time_s of the frame at which the
\* speed spike is first observed, never that of the start of the dwell: the
\* time of the earliest ball frame at a position idx >= 5 whose 5 preceding
\* frames have x- and y-extent <= 10 px and from which the speed to frame
\* idx + 1 is >= 80 px/s; nothing is returned if there is no such frame.
C14_KickoffIsSpikeFrame ==
    pc = "phases" =>
        LET frames == PrimaryTrack(tracking.ball_tracks).frames
            at == KickoffPositions(frames)
        IN /\ detect_kickoff_time(tracking)
                = IF at = {} THEN NoTime ELSE <<frames[Min(at) + 1].time_s>>
           /\ IF at = {} THEN result.value = <<>>
              ELSE /\ result.value # <<>>
                   /\ result.value[1].start_time_s = frames[Min(at) + 1].time_s

\* a kickoff is reported at a second spike, the first one having come too
\* early or without a dwell
C14_Witness ==
    /\ pc = "phases"
    /\ result.value # <<>>
    /\ LET frames == PrimaryTrack(tracking.ball_tracks).frames
       IN \E a \in 0..(Len(frames) - 2) : \E b \in 0..(Len(frames) - 2) :
            /\ a < b
            /\ SpikeAt(frames, a)
            /\ b \in KickoffPositions(frames)
            /\ result.value[1].start_time_s = frames[b + 1].time_s
            /\ result.value[1].start_time_s # frames[b - 4].time_s

(***************************************************************************)
(* Action Recognizer (components/action_recognition.py)                    *)
(* confidence is counted in hundredths.                                    *)
(***************************************************************************)
ActionCandidate(action, subaction, f0, f1, player_track_id, ball_track_id, confidence) ==
    [action |-> action, subaction |-> subaction,
     start_frame |-> f0.frame_index, end_frame |-> f1.frame_index,
     start_time_s |-> f0.time_s, end_time_s |-> f1.time_s,
     player_track_id |-> player_track_id, ball_track_id |-> ball_track_id,
     start_x |-> f0.x, start_y |-> f0.y, end_x |-> f1.x, end_y |-> f1.y,
     confidence |-> confidence]

\* the members of a finite set of integers, in increasing order
RECURSIVE Ascending(_)
Ascending(S) == IF S = {} THEN <<>> ELSE <<Min(S)>> \o Ascending(S \ {Min(S)})

\* the concatenation of the sequences parts[1], parts[2], ...
RECURSIVE Flatten(_)
Flatten(parts) == IF parts = <<>> THEN <<>> ELSE Head(parts) \o Flatten(Tail(parts))

\* the nearest track at the frame, however far it is
find_nearest_player_at_any_distance(frame_pos, player_tracks, max_dist) ==
    LET best == NearestScan(frame_pos, player_tracks, 1,
                            max_dist * max_dist + Dist2(frame_pos, [x |-> 0, y |-> 0])
                                + 4 * 1000 * 1000, 0)
    IN IF best = 0 THEN NoTrack ELSE player_tracks[best]

\* _find_nearest_player: the nearest track strictly within max_dist, or None
find_nearest_player(frame_pos, player_tracks, max_dist) ==
    LET best == NearestScan(frame_pos, player_tracks, 1, max_dist * max_dist, 0)
    IN IF best = 0 THEN NoTrack ELSE player_tracks[best]

\* _find_all_nearby_players: the tracks strictly within max_dist, in list order
RECURSIVE find_all_nearby_players(_, _, _)
find_all_nearby_players(frame_pos, player_tracks, max_dist) ==
    IF player_tracks = <<>> THEN <<>>
    ELSE LET at == FrameAt(Head(player_tracks).frames, frame_pos.frame_index)
             rest == find_all_nearby_players(frame_pos, Tail(player_tracks), max_dist)
         IN IF \E f \in at : Dist2(f, frame_pos) < max_dist * max_dist
            THEN <<Head(player_tracks)>> \o rest
            ELSE rest

same_team(player1, player2) ==
    player1.team_color # NULL /\ player1.team_color = player2.team_color

is_successful_pass(passer, receiver, ball_frame) ==
    \E f \in FrameAt(receiver.frames, ball_frame.frame_index) : Dist2(f, ball_frame) < 50 * 50

\* x < length * 0.05 or x > length * 0.95
near_goal(frame, length) == 20 * frame.x < length \/ 20 * frame.x > 19 * length

dribble_kept(player_tracks, player) == player.jersey_number # NULL

\* the future positions j (0-based offset from i, 0 < j < 90) that end a pass
\* started at position i (0-based) by nearby_player
PassEnds(frames, i, nearby_player, player_tracks) ==
    LET last == IF i + 90 < Len(frames) THEN i + 90 ELSE Len(frames)
    IN {j \in 1..(last - i - 1) :
          LET future_frame == frames[i + j + 1]
              other_player == find_nearest_player(future_frame, player_tracks, 50)
          IN /\ other_player # NoTrack
             /\ other_player.track_id # nearby_player.track_id
             /\ same_team(nearby_player, other_player)
             /\ ~(Dist2(future_frame, frames[i + 1]) < 30 * 30)}

\* the pass candidate of origin position i (0-based), as a list of 0 or 1
PassAt(ball_track, i, player_tracks) ==
    LET frames == ball_track.frames
        frame == frames[i + 1]
        nearby_player == find_nearest_player(frame, player_tracks, 50)
        ends == IF nearby_player = NoTrack THEN {}
                ELSE PassEnds(frames, i, nearby_player, player_tracks)
    IN IF ends = {} THEN <<>>
       ELSE LET future_frame == frames[i + Min(ends) + 1]
                other_player == find_nearest_player(future_frame, player_tracks, 50)
            IN <<ActionCandidate("pass",
                     IF is_successful_pass(nearby_player, other_player, future_frame)
                     THEN "accurate" ELSE "inaccurate",
                     frame, future_frame, nearby_player.track_id, ball_track.track_id, 70)>>

detect_passes(ball_track, player_tracks) ==
    IF Len(ball_track.frames) < 10 THEN <<>>
    ELSE Flatten([k \in 1..(Len(ball_track.frames) - 1) |->
                     PassAt(ball_track, k - 1, player_tracks)])

\* the shot candidate of position i (0-based, interior), as a list of 0 or 1
ShotAt(ball_track, i, player_tracks, length) ==
    LET frames == ball_track.frames
        prev_frame == frames[i]
        curr_frame == frames[i + 1]
        next_frame == frames[i + 2]
        nearby_player == find_nearest_player(curr_frame, player_tracks, 80)
    IN IF /\ SpeedAtLeast(Dist2(next_frame, prev_frame),
                          curr_frame.time_s - prev_frame.time_s, 2 * 100)
          /\ (10 * curr_frame.x > 9 * length \/ 10 * curr_frame.x < length)
       THEN <<ActionCandidate("shoot",
                 IF near_goal(curr_frame, length) THEN "goal" ELSE "inaccurate",
                 curr_frame, next_frame,
                 IF nearby_player = NoTrack THEN NULL ELSE nearby_player.track_id,
                 ball_track.track_id, 60)>>
       ELSE <<>>

detect_shots(ball_track, player_tracks, pitch_dims) ==
    IF Len(ball_track.frames) < 5 THEN <<>>
    ELSE Flatten([k \in 1..(Len(ball_track.frames) - 2) |->
                     ShotAt(ball_track, k, player_tracks, pitch_dims[1])])

\* the end j (0-based, exclusive) of the run of player that starts at i
RECURSIVE DribbleRunEnd(_, _, _, _)
DribbleRunEnd(frames, j, player, player_tracks) ==
    IF j >= Len(frames) THEN j
    ELSE LET nearest == find_nearest_player(frames[j + 1], player_tracks, 40)
         IN IF nearest = NoTrack \/ nearest.track_id # player.track_id THEN j
            ELSE DribbleRunEnd(frames, j + 1, player, player_tracks)

\* the while loop of _detect_dribbles from position i (0-based) on
RECURSIVE DribbleLoop(_, _, _)
DribbleLoop(ball_track, i, player_tracks) ==
    LET frames == ball_track.frames
    IN IF i >= Len(frames) THEN <<>>
       ELSE LET start_frame == frames[i + 1]
                player == find_nearest_player(start_frame, player_tracks, 40)
            IN IF player = NoTrack THEN DribbleLoop(ball_track, i + 1, player_tracks)
               ELSE LET j == DribbleRunEnd(frames, i + 1, player, player_tracks)
                        end_frame == frames[j]
                        found == IF j - i >= 5 /\ Dist2(end_frame, start_frame) > 30 * 30
                                 THEN <<ActionCandidate("dribble",
                                          IF dribble_kept(player_tracks, player)
                                          THEN "keep" ELSE "lose",
                                          start_frame, end_frame, player.track_id,
                                          ball_track.track_id, 65)>>
                                 ELSE <<>>
                    IN found \o DribbleLoop(ball_track, IF j > i + 1 THEN j ELSE i + 1,
                                            player_tracks)

detect_dribbles(ball_track, player_tracks) ==
    IF Len(ball_track.frames) < 5 THEN <<>> ELSE DribbleLoop(ball_track, 0, player_tracks)

\* an opponent search that takes the first other track, whatever its colour
AnyOtherTrack(player1, nearby) ==
    LET hits == {k \in Indices(nearby) : nearby[k].track_id # player1.track_id}
    IN IF hits = {} THEN NoTrack ELSE nearby[Min(hits)]

\* the first track of nearby that is another track of another colour than player1
OpponentOf(player1, nearby) ==
    LET hits == {k \in Indices(nearby) : /\ nearby[k].track_id # player1.track_id
                                         /\ nearby[k].team_color # player1.team_color}
    IN IF hits = {} THEN NoTrack ELSE nearby[Min(hits)]

\* the challenge candidate of one ball frame, as a list of 0 or 1
ChallengeAt(ball_track, frame, player_tracks) ==
    LET nearby == find_all_nearby_players(frame, player_tracks, 60)
        teams == {<<nearby[k].team_color, nearby[k].jersey_number>> : k \in Indices(nearby)}
    IN IF Len(nearby) < 2 \/ Cardinality(teams) < 2 THEN <<>>
       ELSE LET player1 == nearby[1]
                player2 == OpponentOf(player1, nearby)
            IN IF player2 = NoTrack THEN <<>>
               ELSE <<ActionCandidate("challenge",
                         IF player1.team_color = player2.team_color THEN "win" ELSE "lose",
                         frame, frame, player1.track_id, ball_track.track_id, 50)>>

detect_challenges(ball_track, player_tracks) ==
    IF Len(ball_track.frames) < 2 THEN <<>>
    ELSE Flatten([k \in Indices(ball_track.frames) |->
                     ChallengeAt(ball_track, ball_track.frames[k], player_tracks)])

\* the first track of nearby of another colour than the attacker
DefenderOf(attacker, nearby) ==
    LET hits == {k \in Indices(nearby) : nearby[k].team_color # attacker.team_color}
    IN IF hits = {} THEN NoTrack ELSE nearby[Min(hits)]

\* the intercept candidate of position i (0-based), as a list of 0 or 1
InterceptAt(ball_track, i, player_tracks) ==
    LET frames == ball_track.frames
        frame == frames[i + 1]
        nearby == find_all_nearby_players(frame, player_tracks, 50)
    IN IF Len(nearby) < 2 THEN <<>>
       ELSE LET attacker == nearby[1]
                defender == DefenderOf(attacker, nearby)
                prev_frames == Slice(frames, IF i - 10 > 0 THEN i - 10 ELSE 0, i)
            IN IF /\ defender # NoTrack
                  /\ \E f \in Range(prev_frames) :
                        find_nearest_player(f, player_tracks, 40) = attacker
               THEN <<ActionCandidate("intercept", "success", frame, frame,
                                      defender.track_id, ball_track.track_id, 55)>>
               ELSE <<>>

detect_intercepts(ball_track, player_tracks) ==
    IF Len(ball_track.frames) < 10 THEN <<>>
    ELSE Flatten([k \in 1..(Len(ball_track.frames) - 10) |->
                     InterceptAt(ball_track, k + 4, player_tracks)])

\* sorted(actions, key=lambda a: a.start_frame): stable insertion
RECURSIVE InsertByStartFrame(_, _)
InsertByStartFrame(sorted, a) ==
    IF sorted = <<>> THEN <<a>>
    ELSE IF sorted[Len(sorted)].start_frame <= a.start_frame THEN Append(sorted, a)
    ELSE Append(InsertByStartFrame(SubSeq(sorted, 1, Len(sorted) - 1), a),
                sorted[Len(sorted)])

\* the candidates left in the order the detectors produced them
KeepDetectorOrder(actions) == actions

RECURSIVE SortByStartFrame(_)
SortByStartFrame(actions) ==
    IF actions = <<>> THEN <<>>
    ELSE InsertByStartFrame(SortByStartFrame(SubSeq(actions, 1, Len(actions) - 1)),
                            actions[Len(actions)])

recognize_actions(tr, pitch_dims) ==
    IF tr.ball_tracks = <<>> \/ tr.player_tracks = <<>> THEN <<>>
    ELSE LET ball_track == PrimaryTrack(tr.ball_tracks)
         IN IF Len(ball_track.frames) < 2 THEN <<>>
            ELSE SortByStartFrame(
                     detect_passes(ball_track, tr.player_tracks)
                  \o detect_shots(ball_track, tr.player_tracks, pitch_dims)
                  \o detect_dribbles(ball_track, tr.player_tracks)
                  \o detect_challenges(ball_track, tr.player_tracks)
                  \o detect_intercepts(ball_track, tr.player_tracks))

(***************************************************************************)
(* Inputs of the action recognizer: a ball seen for up to MaxActFrames     *)
(* frames, one every 0.1 s, resting or rolling 10 px a frame towards the   *)
(* goal line, and two players, each of a team (or none), with or without   *)
(* a jersey number, keeping a fixed offset from the ball (30, 50 or 60 px  *)
(* away) and seen at every frame, at the first two only, or never.         *)
(***************************************************************************)
MaxActFrames == 5

ActTicks == PerSecond \div 10

BallStart == <<85, 0>>

BallSteps == {<<0, 0>>, <<10, 0>>}

Offsets == {<<18, 24>>, <<30, 40>>, <<36, 48>>}

Presences == {"always", "first two", "never"}

Teams == {"red", "blue", NULL}

\* (length_m, width_m) of PITCH_11V11 and PITCH_9V9
PitchChoices == {<<100, 64>>, <<70, 45>>}

ActBallFrames(n, step) ==
    [k \in 1..n |-> TrackFrame(k - 1, (k - 1) * ActTicks,
                               BallStart[1] + (k - 1) * step[1],
                               BallStart[2] + (k - 1) * step[2])]

\* the frames of a player that follows the ball at an offset
FollowerFrames(ball_frames, offset, presence) ==
    LET seen == IF presence = "always" THEN Len(ball_frames)
                ELSE IF presence = "never" THEN 0
                ELSE IF Len(ball_frames) < 2 THEN Len(ball_frames) ELSE 2
    IN [k \in 1..seen |-> TrackFrame(ball_frames[k].frame_index, ball_frames[k].time_s,
                                     ball_frames[k].x + offset[1],
                                     ball_frames[k].y + offset[2])]

PlayerChoices == Offsets \X Presences \X Teams \X Jerseys

ActTracking(n, step, c1, c2) ==
    LET ball_frames == ActBallFrames(n, step)
    IN TrackingResult(
         <<Track("p1", "player", FollowerFrames(ball_frames, c1[1], c1[2]), c1[3], c1[4]),
           Track("p2", "player", FollowerFrames(ball_frames, c2[1], c2[2]), c2[3], c2[4])>>,
         <<Track("b1", "ball", ball_frames, NULL, NULL)>>)

InitAct ==
    /\ pc = "start"
    /\ \E n \in 0..MaxActFrames, step \in BallSteps :
         \E c1 \in PlayerChoices, c2 \in PlayerChoices :
            tracking = ActTracking(n, step, c1, c2)
    /\ result = NoResult
    /\ result2 = NoResult
    /\ NoMapperYet

\* pipeline step "Recognizing actions": recognize_actions(_tracking, pitch dims)
RecognizeActions ==
    /\ pc = "start"
    /\ \E pitch_dims \in PitchChoices :
         result' = Ok(recognize_actions(tracking, pitch_dims))
    /\ pc' = "actions"
    /\ UNCHANGED <<tracking, candidates, result2, H_cache, lookups>>

NextAct == RecognizeActions

SpecAct == InitAct /\ [][NextAct]_vars

\* C5: for a TrackingResult whose primary ball track has exactly 2 frames,
\* recognize_actions returns an empty list, whatever the player tracks are.
C5_TwoFrameBallNoActions ==
    (/\ pc = "actions"
     /\ tracking.ball_tracks # <<>>
     /\ Len(PrimaryTrack(tracking.ball_tracks).frames) = 2) => result.value = <<>>

(***************************************************************************)
(* Longer inputs of the action recognizer, on which every detector can     *)
(* fire: the same ball and players over 2, 5, LongActFrames - 1 or         *)
(* LongActFrames frames.                                                   *)
(***************************************************************************)
LongActFrames == 11

ActLengths == {2, 5, LongActFrames - 1, LongActFrames}

InitActLong ==
    /\ pc = "start"
    /\ \E n \in ActLengths, step \in BallSteps :
         \E c1 \in PlayerChoices, c2 \in PlayerChoices :
            tracking = ActTracking(n, step, c1, c2)
    /\ result = NoResult
    /\ result2 = NoResult
    /\ NoMapperYet

SpecActLong == InitActLong /\ [][NextAct]_vars

\* C12: the list returned by recognize_actions is in non-decreasing order of
\* start_frame, for every TrackingResult and whichever detector produced a
\* candidate.
C12_SortedByStartFrame ==
    pc = "actions" =>
        \A i \in Indices(result.value) : \A j \in Indices(result.value) :
            i < j => result.value[i].start_frame <= result.value[j].start_frame

\* the output holds a pass, and a dribble comes before a shot although the
\* shots are detected before the dribbles
C12_Witness ==
    /\ pc = "actions"
    /\ \E i \in Indices(result.value) : result.value[i].action = "pass"
    /\ \E i \in Indices(result.value) : \E j \in Indices(result.value) :
         /\ i < j
         /\ result.value[i].action = "dribble"
         /\ result.value[j].action = "shoot"

\* the pair of players a challenge or intercept candidate was emitted for:
\* the first nearby player at the candidate's ball frame and the first
\* nearby player taken for an opponent
OpposingPair(c) ==
    LET ball == PrimaryTrack(tracking.ball_tracks)
        frame == CHOOSE f \in Range(ball.frames) : f.frame_index = c.start_frame
        nearby == find_all_nearby_players(frame, tracking.player_tracks,
                                          IF c.action = "challenge" THEN 60 ELSE 50)
    IN <<nearby[1], IF c.action = "challenge" THEN OpponentOf(nearby[1], nearby)
                    ELSE DefenderOf(nearby[1], nearby)>>

\* C15: a player track without team_color never matches a same-team or a
\* different-team comparison: no pass candidate has a passer without
\* team_color, and no challenge or intercept candidate is emitted for an
\* opposing pair in which one player has no team_color.
C15_AbsentTeamNeverMatches ==
    pc = "actions" =>
        \A k \in Indices(result.value) :
            LET c == result.value[k]
            IN /\ c.action = "pass" =>
                     TrackMap(tracking.player_tracks)[c.player_track_id].team_color # NULL
               /\ c.action \in {"challenge", "intercept"} =>
                     /\ OpposingPair(c)[1].team_color # NULL
                     /\ OpposingPair(c)[2].team_color # NULL

(***************************************************************************)
(* Empty and short inputs, handed to each of the four stages: no ball      *)
(* track or a ball track of 0, 1 or 2 frames; up to MaxShortTracks player  *)
(* tracks of 0 or 1 frame.                                                 *)
(***************************************************************************)
MaxShortTracks == 2

ShortBallTracks ==
    {<<>>} \cup {<<Track("b1", "ball", ActBallFrames(n, <<0, 0>>), NULL, NULL)>> : n \in 0..2}

ShortFrameSeqs == {<<>>} \cup {<<TrackFrame(0, 0, p[1], p[2])>> : p \in {<<85, 0>>, <<103, 24>>}}

ShortPlayerLists ==
    UNION {[1..n -> ShortFrameSeqs \X Teams \X Jerseys] : n \in 0..MaxShortTracks}

InitEmpty ==
    /\ pc = "start"
    /\ \E balls \in ShortBallTracks, choice \in ShortPlayerLists :
         tracking = TrackingResult(
            [i \in 1..Len(choice) |->
                Track(PlayerIds[i], "player", choice[i][1], choice[i][2], choice[i][3])],
            balls)
    /\ result = NoResult
    /\ result2 = NoResult
    /\ NoMapperYet

CallLink ==
    /\ pc = "start"
    /\ result' = link_substitutions(tracking, max_time_gap_s, max_position_dist_px)
    /\ pc' = "link_substitutions"
    /\ UNCHANGED <<tracking, candidates, result2, H_cache, lookups>>

CallPossessions ==
    /\ pc = "start"
    /\ \E uuids \in [1..DrawsOfPossession(tracking) -> UuidPrefixes] :
         result' = Ok(infer_possessions(tracking, max_ball_distance,
                                        min_segment_duration, uuids))
    /\ pc' = "infer_possessions"
    /\ UNCHANGED <<tracking, candidates, result2, H_cache, lookups>>

CallPhases ==
    /\ pc = "start"
    /\ result' = Ok(segment_game_phases(tracking))
    /\ pc' = "segment_game_phases"
    /\ UNCHANGED <<tracking, candidates, result2, H_cache, lookups>>

CallActions ==
    /\ pc = "start"
    /\ \E pitch_dims \in PitchChoices :
         result' = Ok(recognize_actions(tracking, pitch_dims))
    /\ pc' = "recognize_actions"
    /\ UNCHANGED <<tracking, candidates, result2, H_cache, lookups>>

NextEmpty == CallLink \/ CallPossessions \/ CallPhases \/ CallActions

SpecEmpty == InitEmpty /\ [][NextEmpty]_vars

\* C6: on empty or short input -- no ball track, no player tracks, tracks
\* that are empty or too short -- none of link_substitutions,
\* infer_possessions, segment_game_phases and recognize_actions raises.
C6_EmptyInputNeverRaises ==
    pc # "start" => result.raised = NULL

(***************************************************************************)
(* Pitch Mapper: components/pitch_mapper.py and the two functions of       *)
(* components/homography.py it calls.  A Homography is a 3x3 integer       *)
(* matrix, None is NoHomography.  What the video answers to cap.read() and *)
(* what compute_homography finds in the frame are outside the program: a   *)
(* lookup that asks them gets one of Answers.                              *)
(***************************************************************************)
sample_interval == 30

\* Optional[Homography]: None
NoHomography == <<>>

\* a cache with nothing in it: PitchMapper.__init__
EmptyCache == <<>>

\* what cap.read() and compute_homography can answer for one frame
Homographies ==
    {<<<<2, 0, 0>>, <<0, 2, 0>>, <<0, 0, 1>>>>,
     <<<<1, 0, 5>>, <<0, 1, 7>>, <<0, 0, 1>>>>}

Answers ==
    {[ok |-> FALSE, H |-> NoHomography], [ok |-> TRUE, H |-> NoHomography]}
        \cup {[ok |-> TRUE, H |-> h] : h \in Homographies}

\* cache_key = (frame_index // sample_interval) * sample_interval
CacheKey(frame_index) == (frame_index \div sample_interval) * sample_interval

\* a cache test that counts only a stored homography as a hit
CacheHitOnSuccessOnly(cache, cache_key) ==
    cache_key \in DOMAIN cache /\ cache[cache_key] # NoHomography

\* if cache_key in self._H_cache
CacheHit(cache, cache_key) == cache_key \in DOMAIN cache

\* self._H_cache[cache_key] = H
CachePut(cache, cache_key, H) ==
    [k \in DOMAIN cache \cup {cache_key} |-> IF k = cache_key THEN H ELSE cache[k]]

\* one call of get_homography on the mapper <<cache, log>>; answer is what
\* the video and the estimator say for the bucket's frame if they are asked.
\* Yields the mapper after the call and the homography returned.
get_homography(cache, log, frame_index, answer) ==
    LET cache_key == CacheKey(frame_index)
        Call(asked, H) == [frame_index |-> frame_index, cache_key |-> cache_key,
                           read |-> asked, estimated |-> asked /\ answer.ok,
                           returned |-> H]
    IN IF CacheHit(cache, cache_key)
       THEN [cache |-> cache, log |-> Append(log, Call(FALSE, cache[cache_key])),
             H |-> cache[cache_key]]
       ELSE IF ~answer.ok
       THEN [cache |-> CachePut(cache, cache_key, NoHomography),
             log |-> Append(log, Call(TRUE, NoHomography)), H |-> NoHomography]
       ELSE [cache |-> CachePut(cache, cache_key, answer.H),
             log |-> Append(log, Call(TRUE, answer.H)), H |-> answer.H]

\* cv2.perspectiveTransform of one point
apply_homography(point, H) ==
    IF H = NoHomography THEN point
    ELSE LET w == H[3][1] * point[1] + H[3][2] * point[2] + H[3][3]
         IN <<(H[1][1] * point[1] + H[1][2] * point[2] + H[1][3]) \div w,
              (H[2][1] * point[1] + H[2][2] * point[2] + H[2][3]) \div w>>

\* the loop of transform_track over the frames i.. of the track; answers[k]
\* is what the outside says for bucket k if it is asked
RECURSIVE TransformLoop(_, _, _, _, _, _)
TransformLoop(frames, i, cache, log, answers, pitch_coords) ==
    IF i > Len(frames)
    THEN [cache |-> cache, log |-> log, value |-> pitch_coords]
    ELSE LET f == frames[i]
             got == get_homography(cache, log, f.frame_index,
                                   answers[CacheKey(f.frame_index)])
             point == IF got.H # NoHomography
                      THEN apply_homography(<<f.x, f.y>>, got.H)
                      ELSE <<f.x, f.y>>
         IN TransformLoop(frames, i + 1, got.cache, got.log, answers,
                          Append(pitch_coords, point))

\* the first player track with the id, NoTrack if there is none
FirstTrackWithId(tracks, track_id) ==
    IF \E i \in Indices(tracks) : tracks[i].track_id = track_id
    THEN tracks[CHOOSE i \in Indices(tracks) :
                    /\ tracks[i].track_id = track_id
                    /\ \A k \in Indices(tracks) : tracks[k].track_id = track_id => i <= k]
    ELSE NoTrack

transform_track(tr, cache, log, track_id, answers) ==
    LET track == FirstTrackWithId(tr.player_tracks, track_id)
    IN IF track = NoTrack
       THEN [cache |-> cache, log |-> log, value |-> <<>>]
       ELSE TransformLoop(track.frames, 1, cache, log, answers, <<>>)

(***************************************************************************)
(* Event Builder: components/event_builder.py.                             *)
(***************************************************************************)
ActionEvent(game_id, event_id, at, possession_id, player_track, candidate, start, end, team_name) ==
    [game_id |-> game_id, event_id |-> event_id, period |-> at[1], phase |-> at[2],
     possession_id |-> possession_id, team_color |-> player_track.team_color,
     team_name |-> team_name, player_number |-> player_track.jersey_number,
     player_track_id |-> candidate.player_track_id,
     ball_owner_track_id |-> candidate.ball_track_id,
     action |-> candidate.action, subaction |-> candidate.subaction,
     start_frame |-> candidate.start_frame, end_frame |-> candidate.end_frame,
     start_time_s |-> candidate.start_time_s, end_time_s |-> candidate.end_time_s,
     start_x |-> start[1], start_y |-> start[2],
     end_x |-> end[1], end_y |-> end[2],
     confidence |-> candidate.confidence]

\* the positions of the segments whose frame range is known and holds frame
Covering(segments, frame) ==
    {i \in Indices(segments) :
        /\ segments[i].start_frame # NoFrame
        /\ segments[i].end_frame # NoFrame
        /\ segments[i].start_frame <= frame
        /\ frame <= segments[i].end_frame}

\* _build_possession_map(segments).get(frame): a later segment overwrites
\* an earlier one
build_possession_map(segments, frame) ==
    LET at == Covering(segments, frame)
    IN IF at = {} THEN NULL ELSE segments[Max(at)].possession_id

\* _build_phase_map(segments).get(frame, (None, None))
build_phase_map(segments, frame) ==
    LET at == Covering(segments, frame)
    IN IF at = {} THEN <<NULL, NULL>>
       ELSE <<segments[Max(at)].period, segments[Max(at)].phase>>

\* str.lower() on the colour names in use
Lower(colour) ==
    CASE colour = "Red" -> "red"
      [] colour = "BLUE" -> "blue"
      [] OTHER -> colour

\* team_names.get(team_color.lower() if team_color else "", None)
TeamName(team_names, team_color) ==
    LET key == IF team_color # NULL /\ team_color # "" THEN Lower(team_color) ELSE ""
    IN IF key \in DOMAIN team_names THEN team_names[key] ELSE NULL

\* pitch_mapper.transform_point(x, y, frame_index): the PitchMapper class
\* defines __init__, get_homography and transform_track and no other
\* attribute, so the lookup of transform_point raises
transform_point(x, y, frame_index) == Raise("AttributeError")

\* the loop over the candidates i..; uuids[i] is the prefix drawn for the
\* i-th candidate
RECURSIVE BuildLoop(_, _, _, _)
BuildLoop(call, i, track_map, events) ==
    IF i > Len(call.action_candidates) THEN Ok(events)
    ELSE LET candidate == call.action_candidates[i]
             event_id == call.uuids[i]
         IN IF candidate.player_track_id \notin DOMAIN track_map
            THEN BuildLoop(call, i + 1, track_map, events)
            ELSE LET player_track == track_map[candidate.player_track_id]
                     start_pitch == transform_point(candidate.start_x, candidate.start_y,
                                                    candidate.start_frame)
                     end_pitch == transform_point(candidate.end_x, candidate.end_y,
                                                  candidate.end_frame)
                 IN IF start_pitch.raised # NULL THEN start_pitch
                    ELSE IF end_pitch.raised # NULL THEN end_pitch
                    ELSE LET fallback == start_pitch.value = <<>> \/ end_pitch.value = <<>>
                             phase == build_phase_map(call.phase_segments,
                                                      candidate.start_frame)
                             event == ActionEvent(
                                 call.game_id, event_id, phase,
                                 build_possession_map(call.possession_segments,
                                                      candidate.start_frame),
                                 player_track, candidate,
                                 IF fallback THEN <<candidate.start_x, candidate.start_y>>
                                 ELSE start_pitch.value,
                                 IF fallback THEN <<candidate.end_x, candidate.end_y>>
                                 ELSE end_pitch.value,
                                 TeamName(call.team_names, player_track.team_color))
                         IN BuildLoop(call, i + 1, track_map, Append(events, event))

build_action_events(call) ==
    BuildLoop(call, 1, TrackMap(call.tracking.player_tracks), <<>>)

(***************************************************************************)
(* One PitchMapper over one video: lookups of single frames and            *)
(* transformations of whole tracks, in any order.                          *)
(***************************************************************************)
MaxLookups == 4

LookupFrames == {0, 29, 30, 61}

MapperTeams == {"Red", "blue", NULL}

\* the frames of the player tracks: the first track spans two buckets
MapperFrames ==
    <<<<TrackFrame(0, 0, 40, 30), TrackFrame(29, 29, 41, 32), TrackFrame(30, 30, 43, 35)>>,
      <<TrackFrame(61, 61, 10, 20)>>>>

MapperTrackings ==
    {TrackingResult([i \in 1..n |-> Track(PlayerIds[i], "player", MapperFrames[i],
                                          teams[i], "10")], <<>>) :
        n \in 1..2, teams \in [1..2 -> MapperTeams]}

TrackIds == {"p1", "p2", "p9"}

\* the cache keys of the frames of the track transform_track picks
BucketsOf(tr, track_id) ==
    {CacheKey(f.frame_index) :
        f \in Range(FirstTrackWithId(tr.player_tracks, track_id).frames)}

InitMapper ==
    /\ pc = "start"
    /\ tracking \in {tr \in MapperTrackings :
                        \A i \in Indices(tr.player_tracks) :
                            tr.player_tracks[i].team_color = NULL}
    /\ candidates = <<>>
    /\ result = NoResult
    /\ result2 = NoResult
    /\ H_cache = EmptyCache
    /\ lookups = <<>>

GetHomography ==
    /\ Len(lookups) < MaxLookups
    /\ \E frame_index \in LookupFrames, answer \in Answers :
         LET got == get_homography(H_cache, lookups, frame_index, answer)
         IN /\ H_cache' = got.cache
            /\ lookups' = got.log
            /\ result' = Ok(got.H)
    /\ pc' = "get_homography"
    /\ UNCHANGED <<tracking, candidates, result2>>

TransformTrack ==
    /\ \E track_id \in TrackIds :
         /\ Len(lookups) + Len(FirstTrackWithId(tracking.player_tracks, track_id).frames)
               <= MaxLookups
         /\ \E answers \in [BucketsOf(tracking, track_id) -> Answers] :
              LET got == transform_track(tracking, H_cache, lookups, track_id, answers)
              IN /\ H_cache' = got.cache
                 /\ lookups' = got.log
                 /\ result' = Ok([track_id |-> track_id, pitch_coords |-> got.value])
    /\ pc' = "transform_track"
    /\ UNCHANGED <<tracking, candidates, result2>>

NextMapper == GetHomography \/ TransformTrack

SpecMapper == InitMapper /\ [][NextMapper]_vars

\* the lookups before the j-th that fell in the same bucket
EarlierInBucket(j) ==
    {i \in 1..(j - 1) : lookups[i].cache_key = lookups[j].cache_key}

\* C8: over any sequence of get_homography calls on one PitchMapper the
\* frame read and the estimation happen at most once per bucket
\* (frame_index rounded down to a multiple of sample_interval): the first
\* lookup of a bucket asks, its outcome -- a homography or a failure -- is
\* stored, and every later lookup of any frame of the bucket returns that
\* outcome without asking again.
C8_OneEstimationPerBucket ==
    \A j \in Indices(lookups) :
        /\ lookups[j].cache_key =
               lookups[j].frame_index - (lookups[j].frame_index % sample_interval)
        /\ lookups[j].cache_key \in DOMAIN H_cache
        /\ IF EarlierInBucket(j) = {}
           THEN /\ lookups[j].read
                /\ H_cache[lookups[j].cache_key] = lookups[j].returned
           ELSE /\ ~lookups[j].read
                /\ ~lookups[j].estimated
                /\ lookups[j].returned = lookups[Min(EarlierInBucket(j))].returned

\* a bucket whose first lookup failed is looked up again at another frame,
\* and a bucket whose first lookup gave a homography is looked up again
C8_Witness ==
    /\ \E i, j \in Indices(lookups) :
         /\ i < j
         /\ lookups[i].cache_key = lookups[j].cache_key
         /\ lookups[i].frame_index # lookups[j].frame_index
         /\ lookups[i].read
         /\ lookups[i].returned = NoHomography
    /\ \E i, j \in Indices(lookups) :
         /\ i < j
         /\ lookups[i].cache_key = lookups[j].cache_key
         /\ lookups[i].estimated
         /\ lookups[i].returned # NoHomography

(***************************************************************************)
(* The event builder called with a PitchMapper of the same tracking.       *)
(***************************************************************************)
MaxCandidates == 2

CandidateIds == {"p1", "p2", "p9", NULL}

CandidateChoices ==
    {ActionCandidate("pass", "complete", MapperFrames[1][1], MapperFrames[1][3],
                     id, "b1", 70) : id \in CandidateIds}
        \cup {ActionCandidate("shot", "on_target", MapperFrames[1][2], MapperFrames[1][3],
                              "p1", "b1", 60)}

CandidateLists == UNION {[1..n -> CandidateChoices] : n \in 0..MaxCandidates}

PossessionChoices ==
    {<<>>, <<[possession_id |-> "0a1b2c3d", team_color |-> "Red",
              player_track_id |-> "p1", start_time_s |-> 0, end_time_s |-> 29,
              start_frame |-> 0, end_frame |-> 29]>>}

PhaseChoices == {<<>>, <<PhaseSegment(1, "first_half", <<0>>, <<61>>)>>}

TeamNameChoices == {<<>>, [k \in {"red"} |-> "Lions"], [k \in {"Red"} |-> "Lions"]}

InitBuild ==
    /\ pc = "start"
    /\ tracking \in MapperTrackings
    /\ candidates \in CandidateLists
    /\ result = NoResult
    /\ result2 = NoResult
    /\ H_cache = EmptyCache
    /\ lookups = <<>>

BuildActionEvents ==
    /\ \E possession_segments \in PossessionChoices, phase_segments \in PhaseChoices,
          team_names \in TeamNameChoices,
          uuids \in [Indices(candidates) -> UuidPrefixes] :
         result' = build_action_events(
            [game_id |-> "g1", action_candidates |-> candidates, tracking |-> tracking,
             possession_segments |-> possession_segments,
             phase_segments |-> phase_segments, team_names |-> team_names,
             uuids |-> uuids])
    /\ pc' = "build_action_events"
    /\ UNCHANGED <<tracking, candidates, result2, H_cache, lookups>>

NextBuild == TransformTrack \/ BuildActionEvents

SpecBuild == InitBuild /\ [][NextBuild]_vars

\* the candidates whose player_track_id is the id of a player track, in order
RECURSIVE Resolvable(_, _)
Resolvable(cands, tr) ==
    IF cands = <<>> THEN <<>>
    ELSE IF \E i \in Indices(tr.player_tracks) :
                tr.player_tracks[i].track_id = Head(cands).player_track_id
         THEN <<Head(cands)>> \o Resolvable(Tail(cands), tr)
         ELSE Resolvable(Tail(cands), tr)

\* the mapper has sampled the video, and got no homography at any frame it
\* asked about
EstimatorAlwaysFailed ==
    /\ lookups # <<>>
    /\ \A i \in Indices(lookups) : lookups[i].returned = NoHomography

\* C7: if the estimator fails for every sampled frame, transform_track
\* returns every point of the track unchanged, and build_action_events
\* completes with, for every candidate whose player track resolves, an event
\* whose start and end coordinates are the candidate's pixel coordinates.
C7_FallbackToPixelCoordinates ==
    EstimatorAlwaysFailed =>
        /\ pc = "transform_track" =>
              LET frames == FirstTrackWithId(tracking.player_tracks,
                                             result.value.track_id).frames
              IN result.value.pitch_coords =
                     [i \in Indices(frames) |-> <<frames[i].x, frames[i].y>>]
        /\ pc = "build_action_events" =>
              /\ result.raised = NULL
              /\ LET kept == Resolvable(candidates, tracking)
                 IN /\ Len(result.value) = Len(kept)
                    /\ \A k \in Indices(kept) :
                         /\ result.value[k].start_x = kept[k].start_x
                         /\ result.value[k].start_y = kept[k].start_y
                         /\ result.value[k].end_x = kept[k].end_x
                         /\ result.value[k].end_y = kept[k].end_y

\* C9: build_action_events never fails the batch: its output holds, in
\* candidate order, exactly one event for each candidate whose
\* player_track_id is the id of a player track of the TrackingResult, and
\* no event for any other candidate.
C9_OneEventPerResolvableCandidate ==
    pc = "build_action_events" =>
        /\ result.raised = NULL
        /\ LET kept == Resolvable(candidates, tracking)
           IN /\ Len(result.value) = Len(kept)
              /\ \A k \in Indices(kept) :
                   /\ result.value[k].player_track_id = kept[k].player_track_id
                   /\ result.value[k].action = kept[k].action
                   /\ result.value[k].start_frame = kept[k].start_frame

\* the keys of the mapping that equal the colour up to letter case
KeysMatching(team_names, team_color) ==
    IF team_color = NULL THEN {}
    ELSE {k \in DOMAIN team_names : Lower(k) = Lower(team_color)}

\* C16: build_action_events resolves the team display name
\* case-insensitively: for every mapping the caller supplies and every
\* resolved player track, if the track's team_color equals a key of the
\* mapping up to letter case the event's team_name is that key's value, and
\* if no key matches the team_name is absent; no error is raised.
C16_TeamNameCaseInsensitive ==
    pc = "build_action_events" =>
        /\ \A team_names \in TeamNameChoices :
             \A k \in Indices(Resolvable(candidates, tracking)) :
                LET track == TrackMap(tracking.player_tracks)[
                                 Resolvable(candidates, tracking)[k].player_track_id]
                    keys == KeysMatching(team_names, track.team_color)
                IN IF keys = {} THEN TeamName(team_names, track.team_color) = NULL
                   ELSE TeamName(team_names, track.team_color)
                            \in {team_names[key] : key \in keys}
        /\ result.raised = NULL
        /\ Len(result.value) = Len(Resolvable(candidates, tracking))

\* the owner of the ball at the k-th frame of the primary ball track: the id
\* of the first of the nearest player tracks, NULL if none is near enough
OwnerAt(k) ==
    LET f == PrimaryTrack(tracking.ball_tracks).frames[k]
        tied == NearestTied(f, tracking.player_tracks, max_ball_distance)
    IN IF tied = {} THEN NULL ELSE tracking.player_tracks[Min(tied)].track_id

\* the positions at which a maximal run of frames with one non-null owner starts
RunStarts ==
    {a \in Indices(PrimaryTrack(tracking.ball_tracks).frames) :
        OwnerAt(a) # NULL /\ (a = 1 \/ OwnerAt(a - 1) # OwnerAt(a))}

\* where the run that starts at a is closed: the first later frame with
\* another owner, or the last frame
RunClose(a) ==
    LET n == Len(PrimaryTrack(tracking.ball_tracks).frames)
        later == {e \in (a + 1)..n : OwnerAt(e) # OwnerAt(a)}
    IN IF later = {} THEN n ELSE Min(later)

\* the runs that last long enough, in order
EmittedRuns ==
    LET frames == PrimaryTrack(tracking.ball_tracks).frames
    IN Ascending({a \in RunStarts :
                    frames[RunClose(a)].time_s - frames[a].time_s >= min_segment_duration})

\* C19: each segment emitted by infer_possessions is one maximal run of
\* consecutive primary-ball frames with the same non-null nearest player:
\* its player_track_id and team_color are those of that owner, it starts at
\* the first frame of the run and ends at the frame at which the owner
\* changed (the last ball frame for the final run), and it is emitted if and
\* only if its end time minus its start time is >= min_segment_duration;
\* runs without owner and shorter runs give no segment.
C19_SegmentsAreOwnerRuns ==
    (pc = "possessions" /\ tracking.ball_tracks # <<>>) =>
        LET frames == PrimaryTrack(tracking.ball_tracks).frames
            segs == result.value
        IN /\ Len(segs) = Len(EmittedRuns)
           /\ \A k \in Indices(segs) :
                LET a == EmittedRuns[k]
                    e == RunClose(a)
                IN /\ segs[k].player_track_id = OwnerAt(a)
                   /\ segs[k].team_color
                         = TrackMap(tracking.player_tracks)[OwnerAt(a)].team_color
                   /\ segs[k].start_frame = frames[a].frame_index
                   /\ segs[k].start_time_s = frames[a].time_s
                   /\ segs[k].end_frame = frames[e].frame_index
                   /\ segs[k].end_time_s = frames[e].time_s

\* a run of exactly min_segment_duration is emitted, closed by a change of
\* owner, and another run, too short, is not
C19_Witness ==
    /\ pc = "possessions"
    /\ \E k \in Indices(result.value) :
         /\ result.value[k].end_time_s - result.value[k].start_time_s = min_segment_duration
         /\ k < Len(result.value)
    /\ Cardinality(RunStarts) > Len(result.value)

\* the window of activity_window frames that starts at position idx (from 0)
\* is one the scan visits, and is quiet
QuietAt(frames, idx) ==
    /\ idx \in 0..(Len(frames) - activity_window - 1)
    /\ SpatialRange(Slice(frames, idx, idx + activity_window)) < activity_threshold

\* end_idx is the first window start, at least activity_window positions
\* after idx, whose window is active
ResumesAt(frames, idx, end_idx) ==
    /\ end_idx \in (idx + activity_window)..(Len(frames) - 1)
    /\ SpatialRange(Slice(frames, end_idx, end_idx + activity_window)) > activity_threshold
    /\ \A e \in (idx + activity_window)..(end_idx - 1) :
          SpatialRange(Slice(frames, e, e + activity_window)) <= activity_threshold

\* the quiet window at idx is followed by activity soon enough to be rejected
RejectedAt(frames, idx) ==
    /\ QuietAt(frames, idx)
    /\ \E e \in 0..(Len(frames) - 1) :
          /\ ResumesAt(frames, idx, e)
          /\ frames[e + 1].time_s - frames[idx + 1].time_s < min_halftime_duration_s

HeapOf(tr) ==
    [o \in {"tracking.player_tracks", "tracking.ball_tracks"} |->
        IF o = "tracking.player_tracks" THEN tr.player_tracks ELSE tr.ball_tracks]

TrackingIn(heap) ==
    TrackingResult(heap["tracking.player_tracks"], heap["tracking.ball_tracks"])

\* the list object obj gets the contents content
Store(heap, obj, content) ==
    [o \in DOMAIN heap \cup {obj} |-> IF o = obj THEN content ELSE heap[o]]

\* a linker that filters the list it was given
updated_tracks_in_place == "tracking.player_tracks"

\* updated_tracks: List[Track] = [] -- a list of its own
updated_tracks_list == "updated_tracks"

\* the stores of link_substitutions
link_substitutions_stores(heap, max_gap, max_dist) ==
    IF Len(heap["tracking.player_tracks"]) < 2 THEN heap
    ELSE LET copied == Store(heap, "player_tracks", heap["tracking.player_tracks"])
             tracks == copied["player_tracks"]
         IN IF SortRaises(tracks) THEN copied
            ELSE LET replacements == Replacements(tracks, max_gap, max_dist)
                     kept == Store(copied, updated_tracks_list,
                                   UpdatedTracks(tracks, DOMAIN replacements))
                 IN Store(kept, updated_tracks_list,
                          MergeLoop(kept[updated_tracks_list], 1, replacements))

MaxHeapTracks == 2

\* up to MaxHeapTracks player tracks as the linker is given them, no ball
\* track or one that rests at the origin, and at most one candidate, of p1
InitHeap ==
    /\ pc = "start"
    /\ \E choice \in UNION {[1..n -> LinkFrameSeqs \X Jerseys] : n \in 0..MaxHeapTracks},
          balls \in {<<>>, <<Track("b1", "ball",
                                   <<TrackFrame(0, 0, 0, 0),
                                     TrackFrame(5, 5 * PerSecond, 0, 0)>>,
                                   NULL, NULL)>>} :
         tracking = TrackingResult(MakePlayers(choice), balls)
    /\ candidates \in {c \in CandidateLists :
                         Len(c) <= 1 /\ \A k \in Indices(c) : c[k].player_track_id = "p1"}
    /\ result = NoResult
    /\ result2 = NoResult
    /\ H_cache = EmptyCache
    /\ lookups = <<>>

\* tracking is what the caller holds after link_substitutions(tracking)
LinkOnHeap ==
    /\ pc = "start"
    /\ result' = link_substitutions(tracking, max_time_gap_s, max_position_dist_px)
    /\ tracking' = TrackingIn(link_substitutions_stores(HeapOf(tracking), max_time_gap_s,
                                                        max_position_dist_px))
    /\ pc' = "link_substitutions"
    /\ UNCHANGED <<candidates, result2, H_cache, lookups>>

\* infer_possessions stores by possessions.append only
PossessionsOnHeap ==
    /\ pc = "start"
    /\ \E uuids \in [1..DrawsOfPossession(tracking) -> UuidPrefixes] :
         /\ result' = Ok(infer_possessions(tracking, max_ball_distance,
                                           min_segment_duration, uuids))
         /\ tracking' = TrackingIn(Store(HeapOf(tracking), "possessions", result'.value))
    /\ pc' = "infer_possessions"
    /\ UNCHANGED <<candidates, result2, H_cache, lookups>>

\* recognize_actions stores by actions.extend only; sorted() makes a new list
ActionsOnHeap ==
    /\ pc = "start"
    /\ \E pitch_dims \in PitchChoices :
         /\ result' = Ok(recognize_actions(tracking, pitch_dims))
         /\ tracking' = TrackingIn(Store(HeapOf(tracking), "actions", result'.value))
    /\ pc' = "recognize_actions"
    /\ UNCHANGED <<candidates, result2, H_cache, lookups>>

\* build_action_events stores by events.append only
BuildOnHeap ==
    /\ pc = "start"
    /\ \E possession_segments \in PossessionChoices, phase_segments \in PhaseChoices,
          team_names \in TeamNameChoices,
          uuids \in [Indices(candidates) -> UuidPrefixes] :
         LET call == [game_id |-> "g1", action_candidates |-> candidates,
                      tracking |-> tracking,
                      possession_segments |-> possession_segments,
                      phase_segments |-> phase_segments, team_names |-> team_names,
                      uuids |-> uuids]
         IN /\ result' = build_action_events(call)
            /\ tracking' = TrackingIn(Store(HeapOf(tracking), "events", result'.value))
    /\ pc' = "build_action_events"
    /\ UNCHANGED <<candidates, result2, H_cache, lookups>>

NextHeap == LinkOnHeap \/ PossessionsOnHeap \/ ActionsOnHeap \/ BuildOnHeap

SpecHeap == InitHeap /\ [][NextHeap]_vars

MaxPassFrames == 92

InitPass ==
    /\ pc = "start"
    /\ \E n \in {10, MaxPassFrames - 1, MaxPassFrames}, from \in {2, 9, 90, 91, 92},
          o1 \in Offsets, o2 \in Offsets, t1 \in {"red", "blue"}, t2 \in Teams :
         LET ball_frames == ActBallFrames(n, <<10, 0>>)
         IN /\ from <= n
            /\ tracking = TrackingResult(
                  <<Track("p1", "player", FollowerFrames(ball_frames, o1, "first two"),
                          t1, "10"),
                    Track("p2", "player",
                          SubSeq(FollowerFrames(ball_frames, o2, "always"), from, n),
                          t2, "10")>>,
                  <<Track("b1", "ball", ball_frames, NULL, NULL)>>)
    /\ result = NoResult
    /\ result2 = NoResult
    /\ NoMapperYet

\* passes = _detect_passes(ball_track, tracking.player_tracks)
DetectPasses ==
    /\ pc = "start"
    /\ result' = Ok(detect_passes(PrimaryTrack(tracking.ball_tracks),
                                  tracking.player_tracks))
    /\ pc' = "passes"
    /\ UNCHANGED <<tracking, candidates, result2, H_cache, lookups>>

NextPass == DetectPasses

SpecPass == InitPass /\ [][NextPass]_vars

\* the positions b (from 1), at most 90 after the origin position a, at which
\* the nearest player is another track of the team of the player near the
\* origin and the ball is at least 30 px from where it was at the origin
QualifyingEnds(frames, a) ==
    LET P == find_nearest_player(frames[a], tracking.player_tracks, 50)
    IN {b \in (a + 1)..Min({a + 90, Len(frames)}) :
          LET Q == find_nearest_player(frames[b], tracking.player_tracks, 50)
          IN /\ Q # NoTrack
             /\ Q.track_id # P.track_id
             /\ same_team(P, Q)
             /\ Dist2(frames[b], frames[a]) >= 30 * 30}

\* C21: for each origin ball frame at position i that has a nearby player P,
\* _detect_passes emits at most one pass candidate, and it ends at the
\* earliest later position j with i < j <= i + 90 at which the nearest
\* player is a different track of P's team and the ball is >= 30 px from
\* its position at i; a receiver that first qualifies exactly 90 frames
\* after the origin frame yields a pass.
C21_PassEndsAtFirstQualifyingFrame ==
    (pc = "passes" /\ Len(PrimaryTrack(tracking.ball_tracks).frames) >= 10) =>
        LET frames == PrimaryTrack(tracking.ball_tracks).frames
        IN \A a \in 1..(Len(frames) - 1) :
             LET P == find_nearest_player(frames[a], tracking.player_tracks, 50)
                 from_a == {k \in Indices(result.value) :
                              /\ result.value[k].action = "pass"
                              /\ result.value[k].start_frame = frames[a].frame_index}
             IN /\ Cardinality(from_a) <= 1
                /\ IF P = NoTrack \/ QualifyingEnds(frames, a) = {}
                   THEN from_a = {}
                   ELSE \E k \in from_a :
                          /\ result.value[k].player_track_id = P.track_id
                          /\ result.value[k].end_frame
                                = frames[Min(QualifyingEnds(frames, a))].frame_index

(***************************************************************************)
(* The scan loop of _detect_dribbles, one iteration a step: result holds    *)
(* the list dribbles, result2 the position i.  The ball of 4, 6 or         *)
(* MaxDribbleFrames frames rests or rolls 6 or 10 px a frame; p1 is seen   *)
(* at the first frames of it, p2 from some frame on, each 30 or 50 px      *)
(* from the ball.                                                          *)
(***************************************************************************)
MaxDribbleFrames == 11

\* a scan that goes on with the next frame, inside the run it has examined
NextPositionInsideRun(i, j) == i + 1

\* a scan that stays where it is after a run of one frame
NextPositionOrStay(i, j) == IF j > i + 1 THEN j ELSE i

\* i = j if j > i + 1 else i + 1
NextPosition(i, j) == IF j > i + 1 THEN j ELSE i + 1

\* one iteration of the while loop at position i (from 0): what it appends to
\* dribbles and the position it goes on with
DribbleIterationAt(ball_track, i, player_tracks) ==
    LET frames == ball_track.frames
        start_frame == frames[i + 1]
        player == find_nearest_player(start_frame, player_tracks, 40)
    IN IF player = NoTrack THEN [found |-> <<>>, next |-> i + 1]
       ELSE LET j == DribbleRunEnd(frames, i + 1, player, player_tracks)
                end_frame == frames[j]
            IN [found |-> IF j - i >= 5 /\ Dist2(end_frame, start_frame) > 30 * 30
                          THEN <<ActionCandidate("dribble",
                                    IF dribble_kept(player_tracks, player)
                                    THEN "keep" ELSE "lose",
                                    start_frame, end_frame, player.track_id,
                                    ball_track.track_id, 65)>>
                          ELSE <<>>,
                next |-> NextPosition(i, j)]

\* result holds the local list dribbles and result2 the local position i;
\* before the call assigns them they hold the values it assigns first
InitDribble ==
    /\ pc = "start"
    /\ \E n \in {4, 6, MaxDribbleFrames}, step \in {<<0, 0>>, <<6, 0>>, <<10, 0>>} :
         \E seen1 \in 0..n, from2 \in 1..(n + 1),
            o1 \in {<<18, 24>>, <<30, 40>>}, o2 \in {<<18, 24>>, <<30, 40>>} :
            LET ball_frames == ActBallFrames(n, step)
            IN tracking = TrackingResult(
                  <<Track("p1", "player",
                          SubSeq(FollowerFrames(ball_frames, o1, "always"), 1, seen1),
                          "red", "10"),
                    Track("p2", "player",
                          SubSeq(FollowerFrames(ball_frames, o2, "always"), from2, n),
                          "red", NULL)>>,
                  <<Track("b1", "ball", ball_frames, NULL, NULL)>>)
    /\ result = Ok(<<>>)
    /\ result2 = Ok(0)
    /\ NoMapperYet

\* dribbles = []; if len(frames) < 5: return dribbles; i = 0
DetectDribblesEnter ==
    /\ pc = "start"
    /\ pc' = IF Len(PrimaryTrack(tracking.ball_tracks).frames) < 5
             THEN "dribbles" ELSE "dribble_loop"
    /\ result' = Ok(<<>>)
    /\ result2' = Ok(0)
    /\ UNCHANGED <<tracking, candidates, H_cache, lookups>>

\* the body of `while i < len(frames)`
DribbleIteration ==
    /\ pc = "dribble_loop"
    /\ result2.value < Len(PrimaryTrack(tracking.ball_tracks).frames)
    /\ LET it == DribbleIterationAt(PrimaryTrack(tracking.ball_tracks), result2.value,
                                    tracking.player_tracks)
       IN /\ result' = Ok(result.value \o it.found)
          /\ result2' = Ok(it.next)
    /\ UNCHANGED <<pc, tracking, candidates, H_cache, lookups>>

\* the loop condition fails: return dribbles
DetectDribblesReturn ==
    /\ pc = "dribble_loop"
    /\ result2.value >= Len(PrimaryTrack(tracking.ball_tracks).frames)
    /\ pc' = "dribbles"
    /\ UNCHANGED <<tracking, candidates, result, result2, H_cache, lookups>>

NextDribble == DetectDribblesEnter \/ DribbleIteration \/ DetectDribblesReturn

SpecDribble == InitDribble /\ [][NextDribble]_vars

\* the positions (from 1) of the maximal run of frames with one and the same
\* nearest player that starts at position a
RunFrom(frames, a) ==
    LET owner(k) == find_nearest_player(frames[k], tracking.player_tracks, 40).track_id
    IN {b \in a..Len(frames) : \A k \in a..b : owner(k) = owner(a)}

\* the positions at which a maximal run with a nearest player starts
DribbleRunStarts(frames) ==
    LET owner(k) == find_nearest_player(frames[k], tracking.player_tracks, 40).track_id
    IN {a \in Indices(frames) : owner(a) # NULL /\ (a = 1 \/ owner(a - 1) # owner(a))}

\* C22: _detect_dribbles emits a dribble for a maximal contiguous run of
\* ball frames with the same single nearest player if and only if the run
\* has >= 5 frames and the net displacement of the ball between the run's
\* first and last frame is >= 30 px; a run of 5 or more frames whose net
\* displacement is exactly 30 px qualifies.
C22_DribbleIffLongAndMoved ==
    (pc = "dribbles" /\ Len(PrimaryTrack(tracking.ball_tracks).frames) >= 5) =>
        LET frames == PrimaryTrack(tracking.ball_tracks).frames
        IN \A a \in DribbleRunStarts(frames) :
             LET b == Max(RunFrom(frames, a))
             IN (\E k \in Indices(result.value) :
                    /\ result.value[k].start_frame = frames[a].frame_index
                    /\ result.value[k].end_frame = frames[b].frame_index)
                <=> (b - a + 1 >= 5 /\ Dist2(frames[b], frames[a]) >= 30 * 30)

\* the player tracks with a frame at the frame index of ball_frame that is at
\* most max_dist away from it
WithinInclusive(ball_frame, player_tracks, max_dist) ==
    {i \in Indices(player_tracks) :
        \E f \in FrameAt(player_tracks[i].frames, ball_frame.frame_index) :
            Dist2(f, ball_frame) <= max_dist * max_dist}

\* C23: distance thresholds for "nearby player" are inclusive: in the
\* possession segmenter (max_ball_distance 60), and likewise in the pass
\* (50), dribble (40) and shoot (80) detectors, a player whose distance to
\* the ball at the same frame index is exactly the threshold is a candidate
\* for nearest player like one strictly inside it -- so a ball that has one
\* and the same only player within max_ball_distance at every frame, over at
\* least min_segment_duration, gives a possession segment.
C23_ThresholdInclusive ==
    (pc = "possessions" /\ tracking.ball_tracks # <<>>) =>
        LET frames == PrimaryTrack(tracking.ball_tracks).frames
        IN (/\ Len(frames) >= 2
            /\ frames[Len(frames)].time_s - frames[1].time_s >= min_segment_duration
            /\ \E i \in Indices(tracking.player_tracks) :
                 \A k \in Indices(frames) :
                    WithinInclusive(frames[k], tracking.player_tracks, max_ball_distance)
                       = {i})
           => result.value # <<>>

\* C24: the "win" branch of the challenge subaction is unreachable: every
\* challenge candidate emitted by _detect_challenges, for every input, has
\* subaction "lose", because the second player is selected only if its
\* team_color differs from the first player's while "win" requires the two
\* colours to be equal.
C24_ChallengeAlwaysLose ==
    pc = "actions" =>
        \A k \in Indices(result.value) :
            result.value[k].action = "challenge" => result.value[k].subaction = "lose"

\* a challenge is emitted for a pair of players that both have a team colour
C24_Witness ==
    /\ pc = "actions"
    /\ \E k \in Indices(result.value) :
         /\ result.value[k].action = "challenge"
         /\ OpposingPair(result.value[k])[1].team_color \in {"red", "blue"}
         /\ OpposingPair(result.value[k])[2].team_color \in {"red", "blue"}

\* the possession_id of the last segment in list order whose inclusive frame
\* range holds frame, NULL if there is none
LastCoveringId(segments, frame) ==
    LET holds == {i \in Indices(segments) :
                    segments[i].start_frame <= frame /\ frame <= segments[i].end_frame}
    IN IF holds = {} THEN NULL
       ELSE segments[CHOOSE i \in holds : \A m \in holds : m <= i].possession_id

\* C25: in build_action_events an event's possession_id (and likewise its
\* period and phase) is determined by the candidate's start_frame only: each
\* resolvable candidate's event carries the possession_id of the last
\* segment in list order whose inclusive range [start_frame, end_frame]
\* contains the candidate's start_frame, and none when no segment contains
\* it; the candidate's end_frame does not influence it.
C25_PossessionByStartFrame ==
    pc = "build_action_events" =>
        /\ result.raised = NULL
        /\ LET kept == Resolvable(candidates, tracking)
           IN /\ Len(result.value) = Len(kept)
              /\ \A k \in Indices(kept) :
                   \E segments \in PossessionChoices :
                      result.value[k].possession_id
                         = LastCoveringId(segments, kept[k].start_frame)

(***************************************************************************)
(* The pipeline steps "Segmenting phases" and "Building events" in a row:  *)
(* build_action_events is given the output of segment_game_phases.         *)
(***************************************************************************)
ChainLengths == {12, MaxPhaseFrames}

\* the positions at which the ball of the chained run may move
ChainMovePositions == {7, 32}

InitPhaseBuild ==
    /\ pc = "start"
    /\ \E n \in ChainLengths, gap_at \in {1, 2}, players \in MapperTrackings :
         \E moves \in {ms \in MoveSets(n) :
                          /\ \A p \in ms : p[1] \in ChainMovePositions
                          /\ \A p \in ms : \A q \in ms : p[1] = q[1] => p = q} :
            tracking = TrackingResult(players.player_tracks,
                                      <<PhaseBall(n, moves, gap_at)>>)
    /\ candidates \in {cs \in CandidateLists : Len(cs) <= 1}
    /\ result = NoResult
    /\ result2 = NoResult
    /\ H_cache = EmptyCache
    /\ lookups = <<>>

\* pipeline step "Building events" after "Segmenting phases"
BuildWithPhases ==
    /\ pc = "phases"
    /\ \E possession_segments \in PossessionChoices, team_names \in TeamNameChoices,
          uuids \in [Indices(candidates) -> UuidPrefixes] :
         result2' = build_action_events(
            [game_id |-> "g1", action_candidates |-> candidates, tracking |-> tracking,
             possession_segments |-> possession_segments,
             phase_segments |-> result.value, team_names |-> team_names,
             uuids |-> uuids])
    /\ pc' = "events"
    /\ UNCHANGED <<tracking, candidates, result, H_cache, lookups>>

NextPhaseBuild == SegmentGamePhases \/ BuildWithPhases

SpecPhaseBuild == InitPhaseBuild /\ [][NextPhaseBuild]_vars

BuildRecognized ==
    /\ pc = "actions"
    /\ \E possession_segments \in PossessionChoices, uuid \in UuidPrefixes :
         result2' = build_action_events(
            [game_id |-> "g1", action_candidates |-> result.value, tracking |-> tracking,
             possession_segments |-> possession_segments,
             phase_segments |-> <<>>, team_names |-> <<>>,
             uuids |-> [i \in Indices(result.value) |-> uuid]])
    /\ pc' = "events"
    /\ UNCHANGED <<tracking, candidates, result, H_cache, lookups>>

NextActBuild == RecognizeActions \/ BuildRecognized

\* the players stand 50, 80 or 100 px from the ball
ShotOffsets == {<<30, 40>>, <<48, 64>>, <<60, 80>>}

InitActBuild ==
    /\ pc = "start"
    /\ \E n \in 0..MaxActFrames, step \in BallSteps :
         \E c1 \in ShotOffsets \X Presences \X {"red", NULL} \X {"10"},
            c2 \in ShotOffsets \X Presences \X {"red", NULL} \X {"10"} :
            tracking = ActTracking(n, step, c1, c2)
    /\ result = NoResult
    /\ result2 = NoResult
    /\ NoMapperYet

SpecActBuild == InitActBuild /\ [][NextActBuild]_vars

\* no player track has a frame with the candidate's start frame index at
\* most max_dist from the candidate's start position
NoPlayerWithin(candidate, player_tracks, max_dist) ==
    \A i \in Indices(player_tracks) :
        \A f \in Range(player_tracks[i].frames) :
            f.frame_index = candidate.start_frame =>
                (f.x - candidate.start_x) * (f.x - candidate.start_x)
                    + (f.y - candidate.start_y) * (f.y - candidate.start_y)
                  > max_dist * max_dist

\* C27: a candidate with no attributed player never becomes an event: a
\* shoot candidate detected with no player within 80 px has player_track_id
\* absent, and build_action_events drops every candidate whose
\* player_track_id is absent (it goes on to the coordinates of a candidate
\* only if the candidate has a tracked player), so no emitted ActionEvent has
\* an absent player_track_id and every such shot is missing from the output.
C27_UnattributedNeverAnEvent ==
    /\ pc \in {"actions", "events"} =>
         \A k \in Indices(result.value) :
            (/\ result.value[k].action = "shoot"
             /\ NoPlayerWithin(result.value[k], tracking.player_tracks, 80))
                => result.value[k].player_track_id = NULL
    /\ pc = "events" =>
         /\ result2.raised # NULL => Resolvable(result.value, tracking) # <<>>
         /\ result2.raised = NULL =>
              /\ Len(result2.value) = Len(Resolvable(result.value, tracking))
              /\ \A e \in Indices(result2.value) :
                   result2.value[e].player_track_id # NULL

\* a shot was detected with a player on its frame but none within 80 px, and
\* the builder returned without it
C27_Witness ==
    /\ pc = "events"
    /\ result2.raised = NULL
    /\ \E k \in Indices(result.value) :
         /\ result.value[k].action = "shoot"
         /\ NoPlayerWithin(result.value[k], tracking.player_tracks, 80)
         /\ result.value[k].player_track_id = NULL
         /\ \E i \in Indices(tracking.player_tracks) :
              \E f \in Range(tracking.player_tracks[i].frames) :
                 f.frame_index = result.value[k].start_frame
         /\ \A e \in Indices(result2.value) :
              result2.value[e].start_frame # result.value[k].start_frame

\* C28: with consecutive ball frames at distinct frame indices in increasing
\* order, the segments returned by infer_possessions are well formed and
\* weakly ordered: every segment has a non-null player_track_id and
\* start_frame <= end_frame, segments appear in increasing start_frame order,
\* and each segment's end_frame is <= the next segment's start_frame, so two
\* segments share at most their single boundary frame.
C28_SegmentsWeaklyOrdered ==
    pc = "possessions" =>
        LET segs == result.value
        IN /\ \A k \in Indices(segs) :
                /\ segs[k].player_track_id # NULL
                /\ segs[k].start_frame <= segs[k].end_frame
           /\ \A k \in Indices(segs) : \A m \in Indices(segs) :
                k < m =>
                   /\ segs[k].start_frame < segs[m].start_frame
                   /\ segs[k].end_frame <= segs[m].start_frame
                   /\ Cardinality((segs[k].start_frame..segs[k].end_frame)
                                  \cap (segs[m].start_frame..segs[m].end_frame)) <= 1

\* two segments of different players were returned and the first ends on
\* the frame on which the second starts
C28_Witness ==
    /\ pc = "possessions"
    /\ Len(result.value) >= 2
    /\ result.value[1].end_frame = result.value[2].start_frame
    /\ result.value[1].player_track_id # result.value[2].player_track_id

\* C29: the dribble candidates returned by _detect_dribbles for one ball
\* track cover pairwise disjoint runs of ball-track positions and are emitted
\* in increasing position order: after a run [i, j) is examined the scan
\* resumes at position j, so at any point of the scan every candidate found
\* ends before the position the scan is at, no ball frame belongs to two
\* dribble candidates and each candidate's run has at least 5 frames.
C29_DribblesDisjointAndOrdered ==
    pc \in {"dribble_loop", "dribbles"} =>
        LET found == result.value
        IN /\ \A k \in Indices(found) :
                /\ found[k].action = "dribble"
                /\ found[k].end_frame - found[k].start_frame + 1 >= 5
                /\ found[k].end_frame < result2.value
           /\ \A k \in Indices(found) : \A m \in Indices(found) :
                k < m =>
                   /\ found[k].end_frame < found[m].start_frame
                   /\ (found[k].start_frame..found[k].end_frame)
                         \cap (found[m].start_frame..found[m].end_frame) = {}

\* the scan has returned two dribbles, the second of which starts on the
\* frame after the last frame of the first
C29_Witness ==
    /\ pc = "dribbles"
    /\ Len(result.value) = 2
    /\ result.value[2].start_frame = result.value[1].end_frame + 1

\* _detect_dribbles is one sequential call: whenever a step of it can be
\* taken, the interpreter takes it
SpecDribbleFair == SpecDribble /\ WF_vars(NextDribble)

\* C30: the scan loop of _detect_dribbles terminates for every finite ball
\* track and every set of player tracks: the position index stays within
\* 0..len(frames), it strictly increases on every iteration (by 1 when no
\* player is near or the run has length 1, otherwise to the end of the run),
\* and the call eventually returns.
C30_DribbleScanTerminates ==
    /\ [](IF pc = "dribble_loop"
          THEN result2.value \in 0..Len(PrimaryTrack(tracking.ball_tracks).frames)
          ELSE TRUE)
    /\ [][IF pc = "dribble_loop" /\ pc' = "dribble_loop"
          THEN result2'.value > result2.value
          ELSE TRUE]_vars
    /\ <>(pc = "dribbles")

\* the scan has returned for a ball of five or more frames that has a frame
\* with no player near and a run of one frame only
C30_Witness ==
    /\ pc = "dribbles"
    /\ LET frames == PrimaryTrack(tracking.ball_tracks).frames
       IN /\ Len(frames) >= 5
          /\ result2.value >= Len(frames)
          /\ \E k \in Indices(frames) :
               find_nearest_player(frames[k], tracking.player_tracks, 40) = NoTrack
          /\ \E a \in DribbleRunStarts(frames) : Max(RunFrom(frames, a)) = a

====
